---- MODULE Spec2Model ----
(***************************************************************************)
(* Rule-based text-analysis core of Prompt_Intel: intent classification,   *)
(* constraint-gap detection, scoring, warning generation and keyword drift *)
(* detection.  The core is stateless, so the state of the model is the     *)
(* call in progress (operation and arguments) and the value it returned.   *)
(* Texts are TLA+ strings, read character by character with SubSeq, so     *)
(* substring search, case folding, tokenising and the regular expressions  *)
(* of the source are computed, not assumed.                                *)
(***************************************************************************)
EXTENDS Integers, Sequences, FiniteSets, TLC

VARIABLES
    call,   \* the call of a core function in progress
    ret,    \* the value it returned
    req,    \* the HTTP request being handled: its handler, body, position and locals
    res,    \* the response sent for it
    chips,  \* the DEFAULT_SUGGESTIONS object of constraintDetector as it is now
    db,     \* the prompts collection: the document stored under each promptId
    saves,  \* the savePrompt calls started and not yet settled
    inflight,   \* the clarify and refine requests that overlap: what each has read
    issued,     \* how many clarify and refine requests were made on the promptId
    piHistory,  \* chrome.storage.local: the list stored under the key piHistory
    storageOps, \* the storage operations under way: the callbacks not yet run
    now,        \* how many entries saveToHistory has made: the clock of the entries
    removed,    \* the ids handed to deleteEntry or stored when the list was cleared
    triggers,   \* background.js: the listener calls under way, with their position
    scripting,  \* the chrome.scripting calls made, each with the tab it was made on
    messages,   \* the IMPROVE_PROMPT messages sent, each with its tab
    injections, \* content.js: how often it ran in the page; from the first run on
                \* window.__PI_CONTENT_LOADED__ is true
    listeners,  \* the number of onMessage listeners the content script has added
    panels,     \* the panel hosts created: in the page or not, and what each shows
    panelHost,  \* the variable panelHost: the host it refers to, or null
    shadowRoot, \* the variable shadowRoot: the host whose shadow root it is, or null
    currentPromptId, \* the variable currentPromptId
    panelOriginalText, \* the variable originalText of content.js
    timers,     \* the close timers started and not yet run
    fetches     \* the requests to the backend sent and not yet answered

coreVars == <<call, ret>>

httpVars == <<req, res, chips, db, saves>>

storeVars == <<inflight, issued>>

historyVars == <<piHistory, storageOps, now, removed>>

backgroundVars == <<triggers, scripting, messages>>

pageVars == <<injections, listeners, panels, panelHost, shadowRoot, currentPromptId,
              panelOriginalText, timers, fetches>>

extensionVars == <<historyVars, backgroundVars, pageVars>>

vars == <<call, ret, req, res, chips, db, saves, inflight, issued,
          piHistory, storageOps, now, removed, triggers, scripting, messages,
          injections, listeners, panels, panelHost, shadowRoot, currentPromptId,
          panelOriginalText, timers, fetches>>

(***************************************************************************)
(* Bounds of the model.                                                    *)
(***************************************************************************)
\* number of fragments of Fragments concatenated into one input text
MaxFrags == 2
\* number of fragments of DriftFragments concatenated into one drift input
MaxDriftFrags == 2
\* longest gaps list handed to score / generate (the AI path may exceed 5)
MaxGapsLen == 6
\* most versions a stored prompt grows to
MaxVersions == 3

(***************************************************************************)
(* JavaScript string primitives.                                           *)
(***************************************************************************)
charAt(s, i) == SubSeq(s, i, i)

CharsOf(s) == { charAt(s, i) : i \in 1..Len(s) }

UPPER == "ABCDEFGHIJKLMNOPQRSTUVWXYZ"

LOWER == "abcdefghijklmnopqrstuvwxyz"

DIGITS == "0123456789"

UpperSet == CharsOf(UPPER)

LowerSet == CharsOf(LOWER)

DigitSet == CharsOf(DIGITS)

\* \s of a JavaScript regular expression, ASCII part
WhiteSpace == {" ", "\t", "\n", "\r", "\f"}

\* \w of a JavaScript regular expression
WordChars == UpperSet \cup LowerSet \cup DigitSet \cup {"_"}

lowerChar(c) ==
    IF c \in UpperSet
    THEN charAt(LOWER, CHOOSE i \in 1..Len(UPPER) : charAt(UPPER, i) = c)
    ELSE c

\* String.prototype.toLowerCase (the string is folded half by half)
RECURSIVE toLowerCase(_)
toLowerCase(s) ==
    IF Len(s) = 0 THEN ""
    ELSE IF Len(s) = 1 THEN lowerChar(s)
    ELSE LET h == Len(s) \div 2
         IN  toLowerCase(SubSeq(s, 1, h)) \o toLowerCase(SubSeq(s, h + 1, Len(s)))

\* String.prototype.includes
includes(s, k) ==
    \E i \in 1..(Len(s) - Len(k) + 1) : SubSeq(s, i, i + Len(k) - 1) = k

\* s.split(w) for a single white-space character w taken as the separator,
\* half by half: the last piece of the left half continues in the right half
RECURSIVE piecesOf(_)
piecesOf(s) ==
    IF Len(s) = 0 THEN <<"">>
    ELSE IF Len(s) = 1 THEN (IF s \in WhiteSpace THEN <<"", "">> ELSE <<s>>)
    ELSE LET h == Len(s) \div 2
             l == piecesOf(SubSeq(s, 1, h))
             r == piecesOf(SubSeq(s, h + 1, Len(s)))
         IN  SubSeq(l, 1, Len(l) - 1) \o <<l[Len(l)] \o r[1]>> \o Tail(r)

nonEmpty(w) == w # ""

\* s.split(/\s+/): a run of white space is one separator, so the empty pieces
\* between the characters of a run are dropped; the piece before leading and
\* the piece after trailing white space stay, and "" splits into <<"">>
splitWhitespace(s) ==
    LET p == piecesOf(s)
    IN  IF Len(p) = 1 THEN p
        ELSE <<p[1]>> \o SelectSeq(SubSeq(p, 2, Len(p) - 1), nonEmpty) \o <<p[Len(p)]>>

\* .filter(Boolean) on an array of strings
filterBoolean(ws) == SelectSeq(ws, nonEmpty)

Range(f) == { f[i] : i \in DOMAIN f }

(***************************************************************************)
(* services/intentDetector.js                                              *)
(***************************************************************************)
INTENT_RULES == <<
    [intent |-> "code_generation",
     keywords |-> <<"write", "code", "implement", "function", "program",
                    "script", "algorithm", "build", "create a", "develop">>],
    [intent |-> "explanation",
     keywords |-> <<"explain", "what is", "how does", "describe",
                    "tell me about", "define", "meaning of", "why does">>],
    [intent |-> "debugging",
     keywords |-> <<"fix", "debug", "error", "bug", "issue", "not working",
                    "wrong", "broken", "failing">>],
    [intent |-> "creative_writing",
     keywords |-> <<"write a story", "poem", "essay", "blog", "article",
                    "creative", "narrative", "fiction">>],
    [intent |-> "data_analysis",
     keywords |-> <<"analyze", "data", "chart", "graph", "statistics",
                    "dataset", "csv", "visualize", "plot">>],
    [intent |-> "summarization",
     keywords |-> <<"summarize", "summary", "tldr", "shorten", "condense",
                    "brief", "key points">>],
    [intent |-> "translation",
     keywords |-> <<"translate", "convert to", "in spanish", "in french",
                    "in hindi", "localize">>],
    [intent |-> "comparison",
     keywords |-> <<"compare", "difference between", "vs", "versus",
                    "pros and cons", "better">>],
    [intent |-> "instruction",
     keywords |-> <<"how to", "steps to", "guide", "tutorial", "instructions",
                    "walk me through", "show me how">>] >>

\* mutant of intentScan: the table is scanned from its last rule to its first
RECURSIVE intentScan_reversed(_, _)
intentScan_reversed(lower, r) ==
    LET rule == INTENT_RULES[Len(INTENT_RULES) + 1 - r]
    IN  IF \E k \in 1..Len(rule.keywords) : includes(lower, rule.keywords[k])
        THEN [detected |-> rule.intent, confidence |-> "medium", source |-> "rule"]
        ELSE IF r = Len(INTENT_RULES)
             THEN [detected |-> "general", confidence |-> "low", source |-> "rule"]
             ELSE intentScan_reversed(lower, r + 1)

\* the loop of detectByRules over INTENT_RULES from rule r on
RECURSIVE intentScan(_, _)
intentScan(lower, r) ==
    IF r > Len(INTENT_RULES)
    THEN [detected |-> "general", confidence |-> "low", source |-> "rule"]
    ELSE IF \E k \in 1..Len(INTENT_RULES[r].keywords) :
                includes(lower, INTENT_RULES[r].keywords[k])
         THEN [detected |-> INTENT_RULES[r].intent, confidence |-> "medium",
               source |-> "rule"]
         ELSE intentScan(lower, r + 1)

\* mutant of intentDetectByRules: the text is not lower-cased
intentDetectByRules_caseSensitive(text) == intentScan(text, 1)

intentDetectByRules(text) == intentScan(toLowerCase(text), 1)

(***************************************************************************)
(* services/constraintDetector.js                                          *)
(***************************************************************************)
LANGUAGES == <<
    "javascript", "python", "java", "c++", "c#", "ruby", "go", "rust",
    "typescript", "php", "swift", "kotlin", "scala", "r", "matlab",
    "sql", "html", "css", "bash", "shell", "powershell", "dart" >>

LEVELS == <<
    "beginner", "intermediate", "advanced", "expert", "novice",
    "basic", "simple", "complex", "in-depth" >>

OUTPUT_FORMATS == <<
    "code only", "code + explanation", "step by step", "bullet points",
    "table", "json", "markdown", "diagram", "pseudocode", "list" >>

SCOPE_INDICATORS == <<
    "function", "class", "module", "full app", "snippet", "project",
    "component", "api", "endpoint", "page", "service", "script" >>

EXAMPLE_INDICATORS == <<
    "example", "for instance", "e.g.", "such as", "like this",
    "sample", "demo", "illustration" >>

DEFAULT_SUGGESTIONS == [
    language |-> <<"Python", "JavaScript", "Java", "TypeScript", "C++", "Go">>,
    level |-> <<"Beginner", "Intermediate", "Advanced">>,
    output_format |-> <<"Code only", "Code + Explanation", "Step-by-step",
                        "Bullet points">>,
    scope |-> <<"Function", "Class", "Full module", "Code snippet">>,
    examples |-> <<"Include examples", "No examples needed">> ]

\* the characters escapeRegex puts a backslash before: . * + ? ^ $ { } ( ) | [ ] \
REGEX_SPECIALS ==
    {".", "*", "+", "?", "^", "$", "{", "}", "(", ")", "|", "[", "]", "\\"}

RECURSIVE escapeRegex(_)
escapeRegex(str) ==
    IF str = "" THEN ""
    ELSE (IF Head(str) \in REGEX_SPECIALS THEN "\\" \o Head(str) ELSE Head(str))
         \o escapeRegex(Tail(str))

\* the literal a pattern made of plain and backslash-escaped characters matches
RECURSIVE patternLiteral(_)
patternLiteral(pat) ==
    IF pat = "" THEN ""
    ELSE IF Head(pat) = "\\" /\ Len(pat) >= 2
         THEN charAt(pat, 2) \o patternLiteral(SubSeq(pat, 3, Len(pat)))
         ELSE Head(pat) \o patternLiteral(Tail(pat))

isWordCharAt(s, i) == i >= 1 /\ i <= Len(s) /\ charAt(s, i) \in WordChars

\* \b holds between the characters p-1 and p of s
wordBoundary(s, p) == isWordCharAt(s, p - 1) # isWordCharAt(s, p)

\* new RegExp('\\b' + pat + '\\b', 'i').test(s), for s already in lower case
\* and pat the escaped form of a lower-case literal
wordRegexTest(pat, s) ==
    LET lit == patternLiteral(pat)
    IN  \E i \in 1..(Len(s) - Len(lit) + 1) :
            /\ SubSeq(s, i, i + Len(lit) - 1) = lit
            /\ wordBoundary(s, i)
            /\ wordBoundary(s, i + Len(lit))

\* mutant of hasLanguage: every language name is searched as a plain substring
hasLanguage_substring(lower) ==
    \E n \in 1..Len(LANGUAGES) : includes(lower, LANGUAGES[n])

\* LANGUAGES.some(...)
hasLanguage(lower) ==
    \E n \in 1..Len(LANGUAGES) :
        LET lang == LANGUAGES[n]
        IN  IF Len(lang) <= 3
            THEN wordRegexTest(escapeRegex(lang), lower)
            ELSE includes(lower, lang)

\* list.some((x) => lower.includes(x))
someIncluded(list, lower) == \E n \in 1..Len(list) : includes(lower, list[n])

hasLevel(lower) == someIncluded(LEVELS, lower)

hasFormat(lower) == someIncluded(OUTPUT_FORMATS, lower)

hasScope(lower) == someIncluded(SCOPE_INDICATORS, lower)

hasExamples(lower) == someIncluded(EXAMPLE_INDICATORS, lower)

\* mutant of pushGap: the suggestions of the scope gap are not attached
pushGap_noScopeSuggestions(acc, absent, name) ==
    IF absent
    THEN [gaps |-> Append(acc.gaps, name),
          suggestions |-> [k \in DOMAIN acc.suggestions \cup ({name} \ {"scope"}) |->
                              IF k = name THEN DEFAULT_SUGGESTIONS[name]
                              ELSE acc.suggestions[k]]]
    ELSE acc

\* gaps.push(name); suggestions[name] = DEFAULT_SUGGESTIONS[name], when absent
pushGap(acc, absent, name) ==
    IF absent
    THEN [gaps |-> Append(acc.gaps, name),
          suggestions |-> [k \in DOMAIN acc.suggestions \cup {name} |->
                              IF k = name THEN DEFAULT_SUGGESTIONS[name]
                              ELSE acc.suggestions[k]]]
    ELSE acc

constraintDetectByRules(text) ==
    LET lower == toLowerCase(text)
        s0 == [gaps |-> <<>>, suggestions |-> <<>>]
        s1 == pushGap(s0, ~hasLanguage(lower), "language")
        s2 == pushGap(s1, ~hasLevel(lower), "level")
        s3 == pushGap(s2, ~hasFormat(lower), "output_format")
        s4 == pushGap(s3, ~hasScope(lower), "scope")
    IN  pushGap(s4, ~hasExamples(lower), "examples")

(***************************************************************************)
(* services/scoringEngine.js                                               *)
(***************************************************************************)
Max(a, b) == IF a >= b THEN a ELSE b

Min(a, b) == IF a <= b THEN a ELSE b

\* (text.match(/[.!?]+/g) || []).length: the maximal runs of . ! ?
isTerminatorAt(s, i) == i >= 1 /\ i <= Len(s) /\ charAt(s, i) \in {".", "!", "?"}

terminatorRuns(s) ==
    Cardinality({ i \in 1..Len(s) : isTerminatorAt(s, i) /\ ~isTerminatorAt(s, i - 1) })

\* /\d+/.test(text)
hasDigitRun(s) == \E i \in 1..Len(s) : charAt(s, i) \in DigitSet

\* /[A-Z]{2,}/.test(text)
hasUpperRun(s) ==
    \E i \in 1..(Len(s) - 1) : charAt(s, i) \in UpperSet /\ charAt(s, i + 1) \in UpperSet

actionVerbs == <<
    "write", "create", "build", "explain", "fix", "debug", "analyze",
    "compare", "list", "generate", "design", "implement", "describe",
    "summarize", "translate", "convert", "show", "tell", "help", "make" >>

\* mutant of clarityOf: the short-prompt penalty is taken before the bonuses
clarityOf_penaltyFirst(text, wordCount, sentenceCount, hasQuestionMark) ==
    LET c0 == IF wordCount < 3 THEN Max(1, 3 - 3) ELSE 3
        c1 == IF wordCount >= 5 THEN c0 + 1 ELSE c0
        c2 == IF wordCount >= 10 THEN c1 + 1 ELSE c1
        c3 == IF wordCount >= 20 THEN c2 + 1 ELSE c2
        c4 == IF sentenceCount >= 2 THEN c3 + 1 ELSE c3
        c5 == IF includes(text, ",") THEN c4 + 1 ELSE c4
        c6 == IF hasQuestionMark \/ includes(text, ".") THEN c5 + 1 ELSE c5
    IN  Min(10, c6)

clarityOf(text, wordCount, sentenceCount, hasQuestionMark) ==
    LET c0 == 3
        c1 == IF wordCount >= 5 THEN c0 + 1 ELSE c0
        c2 == IF wordCount >= 10 THEN c1 + 1 ELSE c1
        c3 == IF wordCount >= 20 THEN c2 + 1 ELSE c2
        c4 == IF sentenceCount >= 2 THEN c3 + 1 ELSE c3
        c5 == IF includes(text, ",") THEN c4 + 1 ELSE c4
        c6 == IF hasQuestionMark \/ includes(text, ".") THEN c5 + 1 ELSE c5
        c7 == IF wordCount < 3 THEN Max(1, c6 - 3) ELSE c6
    IN  Min(10, c7)

\* mutant of completenessOf: the floor Math.max(1, ...) is forgotten
completenessOf_noFloor(gapsLength, wordCount) ==
    LET c0 == 10 - gapsLength * 2
        c1 == IF wordCount >= 15 THEN c0 + 1 ELSE c0
        c2 == IF wordCount >= 30 THEN c1 + 1 ELSE c1
    IN  Min(10, c2)

completenessOf(gapsLength, wordCount) ==
    LET c0 == 10 - gapsLength * 2
        c1 == IF wordCount >= 15 THEN c0 + 1 ELSE c0
        c2 == IF wordCount >= 30 THEN c1 + 1 ELSE c1
    IN  Max(1, Min(10, c2))

\* diversityRatio = uniqueSize / Math.max(wordCount, 1); the comparisons with
\* 0.6 and 0.8 are taken over the integers (x/y > 0.6 iff 5x > 3y for y > 0)
specificityOf(text, wordCount, uniqueSize) ==
    LET denom == Max(wordCount, 1)
        s0 == 3
        s1 == IF 5 * uniqueSize > 3 * denom THEN s0 + 1 ELSE s0
        s2 == IF 5 * uniqueSize > 4 * denom THEN s1 + 1 ELSE s1
        s3 == IF wordCount >= 8 THEN s2 + 1 ELSE s2
        s4 == IF wordCount >= 15 THEN s3 + 1 ELSE s3
        s5 == IF wordCount >= 25 THEN s4 + 1 ELSE s4
        s6 == IF hasDigitRun(text) THEN s5 + 1 ELSE s5
        s7 == IF hasUpperRun(text) THEN s6 + 1 ELSE s6
    IN  Min(10, s7)

intentAlignmentOf(text, wordCount, hasQuestionMark) ==
    LET lower == toLowerCase(text)
        hasAction == someIncluded(actionVerbs, lower)
        a0 == 4
        a1 == IF hasAction THEN a0 + 3 ELSE a0
        a2 == IF hasQuestionMark THEN a1 + 1 ELSE a1
        a3 == IF wordCount >= 5 THEN a2 + 1 ELSE a2
        a4 == IF wordCount < 3 THEN Max(1, a3 - 2) ELSE a3
    IN  Min(10, a4)

scoreByRules(text, gaps) ==
    LET words == filterBoolean(splitWhitespace(text))
        wordCount == Len(words)
        matches == terminatorRuns(text)
        sentenceCount == IF matches = 0 THEN 1 ELSE matches
        hasQuestionMark == includes(text, "?")
        uniqueWords == { toLowerCase(words[i]) : i \in 1..Len(words) }
        clarity == clarityOf(text, wordCount, sentenceCount, hasQuestionMark)
        completeness == completenessOf(Len(gaps), wordCount)
        specificity == specificityOf(text, wordCount, Cardinality(uniqueWords))
        intentAlignment == intentAlignmentOf(text, wordCount, hasQuestionMark)
    IN  [clarity |-> clarity, completeness |-> completeness,
         specificity |-> specificity, intentAlignment |-> intentAlignment,
         total |-> clarity + completeness + specificity + intentAlignment]

(***************************************************************************)
(* services/warningGenerator.js                                            *)
(* The messages are the source's, without the pictograph each starts with. *)
(***************************************************************************)
MSG_HIGH_RISK ==
    "High hallucination risk: Your prompt is very vague. The AI may generate inaccurate or fabricated information."

MSG_MODERATE_RISK ==
    "Moderate hallucination risk: Adding more specific details will help the AI produce more accurate results."

MSG_MOST_MISSING ==
    "Most constraints are missing. Consider specifying language, difficulty level, output format, and scope for better results."

MSG_LOW_CLARITY ==
    "Low clarity score. Try rephrasing your prompt with clearer language and proper sentence structure."

MSG_UNCLEAR_INTENT ==
    "Unclear intent. Your prompt doesn't clearly express what action the AI should take. Try starting with a verb like \"Write\", \"Explain\", \"Create\", or \"Compare\"."

MSG_LOW_CONFIDENCE ==
    "Intent detection confidence is low. The system may not have correctly understood what you're asking for."

MSG_LOW_TOTAL ==
    "Overall prompt quality is low. Significant improvements are recommended before sending to an AI model."

\* Array.prototype.join
RECURSIVE join(_, _)
join(list, sep) ==
    IF Len(list) = 0 THEN ""
    ELSE IF Len(list) = 1 THEN list[1]
    ELSE list[1] \o sep \o join(Tail(list), sep)

msgMissing(gaps) ==
    "Missing constraints: " \o join(gaps, ", ")
        \o ". Filling these in will improve the AI response quality."

\* warnings.push(msg) when cond holds
pushIf(warnings, cond, msg) == IF cond THEN Append(warnings, msg) ELSE warnings

\* mutant of hallucinationRisk: specificity < 5 in place of <= 5
hallucinationRisk_strict(warnings, specificity) ==
    IF specificity <= 3 THEN Append(warnings, MSG_HIGH_RISK)
    ELSE IF specificity < 5 THEN Append(warnings, MSG_MODERATE_RISK)
    ELSE warnings

\* the hallucination-risk branch: high, else moderate, else nothing
hallucinationRisk(warnings, specificity) ==
    IF specificity <= 3 THEN Append(warnings, MSG_HIGH_RISK)
    ELSE IF specificity <= 5 THEN Append(warnings, MSG_MODERATE_RISK)
    ELSE warnings

\* mutant of missingConstraints: the second test is an if, not an else-if
missingConstraints_both(warnings, gaps) ==
    LET w == IF Len(gaps) >= 4 THEN Append(warnings, MSG_MOST_MISSING) ELSE warnings
    IN  IF Len(gaps) >= 2 THEN Append(w, msgMissing(gaps)) ELSE w

\* the incomplete-constraint branch: most missing, else the list, else nothing
missingConstraints(warnings, gaps) ==
    IF Len(gaps) >= 4 THEN Append(warnings, MSG_MOST_MISSING)
    ELSE IF Len(gaps) >= 2 THEN Append(warnings, msgMissing(gaps))
    ELSE warnings

generateWarnings(scores, gaps, intent) ==
    LET w1 == hallucinationRisk(<<>>, scores.specificity)
        w2 == missingConstraints(w1, gaps)
        w3 == pushIf(w2, scores.clarity <= 3, MSG_LOW_CLARITY)
        w4 == pushIf(w3, scores.intentAlignment <= 3, MSG_UNCLEAR_INTENT)
        w5 == pushIf(w4, intent.confidence = "low", MSG_LOW_CONFIDENCE)
    IN  pushIf(w5, scores.total <= 12, MSG_LOW_TOTAL)

(***************************************************************************)
(* services/driftDetector.js                                               *)
(***************************************************************************)
STOP_WORDS == {
    "a", "an", "the", "is", "are", "was", "were", "be", "been", "being",
    "have", "has", "had", "do", "does", "did", "will", "would", "could",
    "should", "may", "might", "can", "shall", "to", "of", "in", "for",
    "on", "with", "at", "by", "from", "as", "into", "through", "during",
    "before", "after", "above", "below", "between", "and", "but", "or",
    "nor", "not", "so", "yet", "both", "either", "neither", "each",
    "every", "all", "any", "few", "more", "most", "other", "some",
    "such", "no", "only", "own", "same", "than", "too", "very", "just",
    "about", "it", "its", "i", "me", "my", "we", "our", "you", "your",
    "he", "she", "they", "them", "this", "that", "these", "those",
    "what", "which", "who", "whom", "how", "when", "where", "why",
    "if", "then", "else", "while", "up", "out", "off" }

\* .replace(/[^a-z0-9\s]/g, ''), half by half
RECURSIVE stripNonAlnum(_)
stripNonAlnum(s) ==
    IF Len(s) = 0 THEN ""
    ELSE IF Len(s) = 1
         THEN (IF s \in LowerSet \cup DigitSet \cup WhiteSpace THEN s ELSE "")
    ELSE LET h == Len(s) \div 2
         IN  stripNonAlnum(SubSeq(s, 1, h)) \o stripNonAlnum(SubSeq(s, h + 1, Len(s)))

isKeyword(w) == Len(w) > 2 /\ w \notin STOP_WORDS

extractKeywords(text) ==
    SelectSeq(splitWhitespace(stripNonAlnum(toLowerCase(text))), isKeyword)

\* Math.round(overlap / total * 100) for 0 <= overlap <= total, total > 0: the
\* quotient is within 1/(2*total) of no half-integer but an exact one, so the
\* floating-point result is floor(100*overlap/total + 1/2)
roundPercent(overlap, total) == (200 * overlap + total) \div (2 * total)

msgDrift(pct) ==
    "Intent drift detected: only " \o ToString(pct)
        \o "% of original keywords are preserved in the refined prompt. The refinement may have altered your original intent."

\* mutant of driftDetectByRules: overlapRatio <= 0.4 in place of < 0.4
driftDetectByRules_inclusive(originalText, refinedText) ==
    LET origKeywords == extractKeywords(originalText)
        refinedKeywords == Range(extractKeywords(refinedText))
        overlap == Len(SelectSeq(origKeywords, LAMBDA kw : kw \in refinedKeywords))
    IN  IF Len(origKeywords) = 0
        THEN [driftDetected |-> FALSE, driftWarning |-> ""]
        ELSE IF 5 * overlap <= 2 * Len(origKeywords)
             THEN [driftDetected |-> TRUE,
                   driftWarning |-> msgDrift(roundPercent(overlap, Len(origKeywords)))]
             ELSE [driftDetected |-> FALSE, driftWarning |-> ""]

\* overlapRatio < 0.4 is taken over the integers: overlap/n < 2/5 iff 5*overlap < 2*n
driftDetectByRules(originalText, refinedText) ==
    LET origKeywords == extractKeywords(originalText)
        refinedKeywords == Range(extractKeywords(refinedText))
        overlap == Len(SelectSeq(origKeywords, LAMBDA kw : kw \in refinedKeywords))
    IN  IF Len(origKeywords) = 0
        THEN [driftDetected |-> FALSE, driftWarning |-> ""]
        ELSE IF 5 * overlap < 2 * Len(origKeywords)
             THEN [driftDetected |-> TRUE,
                   driftWarning |-> msgDrift(roundPercent(overlap, Len(origKeywords)))]
             ELSE [driftDetected |-> FALSE, driftWarning |-> ""]

(***************************************************************************)
(* Input texts: concatenations of at most MaxFrags fragments.              *)
(***************************************************************************)
Fragments == {
    "fix",
    "explain the fix ",
    " ",
    "r",
    "c++",
    "api",
    "rapid",
    "algorithm",
    "Let's use R for this",
    "Write a story ",
    "Is it 42? ",
    "Why?",
    "Use JSON, e.g. a table. ",
    "write a python function to sort a list of numbers ",
    "we do as he is at on in up by if or so no my " }

RECURSIVE Concats(_, _)
Concats(frags, n) ==
    IF n = 0 THEN {""}
    ELSE LET shorter == Concats(frags, n - 1)
         IN  shorter \cup { t \o f : t \in shorter, f \in frags }

\* the core is handed non-empty text only
Texts == Concats(Fragments, MaxFrags) \ {""}

\* the drift detector's inputs
DriftFragments == {
    "Write a Python function to sort a list ",
    "Python, list! ",
    "sort it, sort it ",
    "the of it " }

RefinedFragments == {
    "Write a Python function to sort a list ",
    "using quicksort ",
    "Tell me about French cooking history ",
    "Python, list! " }

OriginalTexts == Concats(DriftFragments, MaxDriftFrags)

RefinedTexts == Concats(RefinedFragments, MaxDriftFrags)

CATEGORIES == <<"language", "level", "output_format", "scope", "examples">>

\* a gaps list of n entries as the AI path may return it: the categories in
\* order, then names of its own
aiGaps(n) ==
    [ i \in 1..n |-> IF i <= Len(CATEGORIES) THEN CATEGORIES[i]
                     ELSE "other_" \o ToString(i) ]

AiGapLists == { aiGaps(n) : n \in 0..MaxGapsLen }

\* and the tails of the category list, as the rule-based detector returns them
GapLists ==
    AiGapLists \cup { SubSeq(CATEGORIES, k, Len(CATEGORIES)) : k \in 2..Len(CATEGORIES) }

ScoreCards ==
    { [clarity |-> c, completeness |-> m, specificity |-> s, intentAlignment |-> a,
       total |-> c + m + s + a] :
        c \in {0, 3, 4, 10}, m \in {1, 10}, s \in {0, 3, 4, 5, 6, 10},
        a \in {0, 3, 4, 10} }

\* {} stands for a request without a stored intent (existing?.intent || {})
Intents == {
    [detected |-> "general", confidence |-> "low", source |-> "rule"],
    [detected |-> "explanation", confidence |-> "medium", source |-> "rule"],
    [detected |-> "debugging", confidence |-> "high", source |-> "ai"],
    [confidence |-> "undefined"] }

(***************************************************************************)
(* JavaScript values of the HTTP layer: a request body, an AI response and *)
(* its parsed document hold values of several types, so each value carries *)
(* its type.                                                               *)
(***************************************************************************)
JsUndefined == [t |-> "undefined"]

JsNull == [t |-> "null"]

JsNumber(n) == [t |-> "number", v |-> n]

JsString(s) == [t |-> "string", v |-> s]

JsArray(items) == [t |-> "array", v |-> items]

JsObject(fields) == [t |-> "object", v |-> fields]

\* a text that spells the JSON document doc, inside a markdown fence or not;
\* doc is JsonGarbage when the text is no JSON at all
JsonText(fenced, doc) == [t |-> "text", fenced |-> fenced, doc |-> doc]

JsonGarbage == [t |-> "garbage"]

\* ToBoolean
truthy(x) ==
    CASE x.t \in {"undefined", "null"} -> FALSE
      [] x.t = "number" -> x.v # 0
      [] x.t = "string" -> x.v # ""
      [] OTHER -> TRUE

\* typeof x === 'string'
isString(x) == x.t \in {"string", "text"}

\* x.key of an object, undefined when the object has no such property
getProp(x, key) ==
    IF x.t = "object" /\ key \in DOMAIN x.v THEN x.v[key] ELSE JsUndefined

\* x?.key
optProp(x, key) ==
    IF x.t \in {"undefined", "null"} THEN JsUndefined ELSE getProp(x, key)

\* x?.[0]
optFirst(x) ==
    IF x.t = "array" /\ Len(x.v) >= 1 THEN x.v[1] ELSE JsUndefined

\* String.prototype.trim
RECURSIVE trimStart(_)
trimStart(s) ==
    IF Len(s) > 0 /\ Head(s) \in WhiteSpace THEN trimStart(Tail(s)) ELSE s

RECURSIVE trimEnd(_)
trimEnd(s) ==
    IF Len(s) > 0 /\ charAt(s, Len(s)) \in WhiteSpace
    THEN trimEnd(SubSeq(s, 1, Len(s) - 1))
    ELSE s

trim(s) == trimEnd(trimStart(s))

\* the string a value becomes in a template literal or a string concatenation
jsToString(x) ==
    CASE x.t = "string" -> x.v
      [] x.t = "number" -> ToString(x.v)
      [] x.t = "null" -> "null"
      [] OTHER -> "undefined"

(***************************************************************************)
(* services/groqClient.js                                                  *)
(***************************************************************************)
PLACEHOLDER_KEY == "YOUR_GROQ_API_KEY_HERE"

\* how a block of code ends, and how the promise of an async function settles
Returned(value) == [kind |-> "returned", value |-> value]

Threw == [kind |-> "threw"]

Resolved(value) == [kind |-> "resolved", value |-> value]

Rejected == [kind |-> "rejected"]

\* data?.choices?.[0]?.message?.content
contentOf(data) ==
    optProp(optProp(optFirst(optProp(data, "choices")), "message"), "content")

\* the body of the try block: net is what the network does to this request
groqExchange(net) ==
    IF net.fetch = "rejects" THEN Threw
    ELSE IF ~net.ok THEN Returned(JsNull)
    ELSE IF net.body = JsonGarbage THEN Threw
    ELSE LET text == contentOf(net.body)
         IN  Returned(IF truthy(text) THEN text ELSE JsNull)

\* mutant of catchToNull: the error is passed on to the caller
catchToNull_rethrow(outcome) ==
    IF outcome.kind = "threw" THEN Rejected ELSE Resolved(outcome.value)

\* catch (err) { ...; return null; }
catchToNull(outcome) ==
    IF outcome.kind = "threw" THEN Resolved(JsNull) ELSE Resolved(outcome.value)

groqGenerate(env, net) ==
    IF env.USE_AI # JsString("true") THEN Resolved(JsNull)
    ELSE IF ~truthy(env.GROQ_API_KEY) \/ env.GROQ_API_KEY = JsString(PLACEHOLDER_KEY)
         THEN Resolved(JsNull)
         ELSE catchToNull(groqExchange(net))

(***************************************************************************)
(* services/promptAnalyzer.js                                              *)
(***************************************************************************)
\* raw.replace(/```json\s*/gi, '').replace(/```\s*/gi, '').trim()
stripFences(raw) == [raw EXCEPT !.fenced = FALSE]

\* JSON.parse: the document the text spells, or a SyntaxError
jsonParse(text) ==
    IF text.t # "text" \/ text.fenced \/ text.doc = JsonGarbage THEN Threw
    ELSE Returned(text.doc)

\* the validation and the object built from the parsed document; reading a
\* property of null throws a TypeError
analyzeParsed(parsed) ==
    IF parsed.t \in {"null", "undefined"} THEN Threw
    ELSE LET gaps == getProp(parsed, "gaps")
             suggestions == getProp(parsed, "suggestions")
             refined == getProp(parsed, "refined")
         IN  IF ~truthy(gaps) \/ ~truthy(suggestions) \/ ~truthy(refined)
             THEN Returned(JsNull)
             ELSE Returned(JsObject(
                    [gaps |-> IF gaps.t = "array" THEN gaps ELSE JsArray(<<>>),
                     suggestions |-> suggestions,
                     refined |-> IF isString(refined) THEN refined ELSE JsNull]))

\* analyze, from the value generate resolved to on
analyzeRaw(raw) ==
    IF ~truthy(raw) THEN JsNull
    ELSE LET parsed == jsonParse(stripFences(raw))
             built == IF parsed.kind = "threw" THEN Threw
                      ELSE analyzeParsed(parsed.value)
         IN  IF built.kind = "threw" THEN JsNull ELSE built.value

(***************************************************************************)
(* What the network and the AI may answer.                                 *)
(***************************************************************************)
AI_REFINED == "Write a beginner-friendly Python function that sorts a list"

AI_SUGGESTIONS ==
    JsObject([level |-> JsArray(<<"Beginner", "Intermediate", "Advanced">>)])

\* the documents an AI response may spell: a complete one, ones with a field
\* of the wrong type, ones with a field missing or empty, and no object at all
AiDocs == {
    JsObject([gaps |-> JsArray(<<"level">>), suggestions |-> AI_SUGGESTIONS,
              refined |-> JsString(AI_REFINED)]),
    JsObject([gaps |-> JsString("level"), suggestions |-> AI_SUGGESTIONS,
              refined |-> JsString(AI_REFINED)]),
    JsObject([gaps |-> JsArray(<<"level">>), suggestions |-> JsString("none"),
              refined |-> JsString(AI_REFINED)]),
    JsObject([gaps |-> JsArray(<<"level">>), suggestions |-> AI_SUGGESTIONS,
              refined |-> JsNumber(42)]),
    JsObject([gaps |-> JsArray(<<>>), suggestions |-> AI_SUGGESTIONS,
              refined |-> JsString("")]),
    JsObject([gaps |-> JsArray(<<"level">>), suggestions |-> AI_SUGGESTIONS]),
    JsNull,
    JsNumber(7),
    JsonGarbage }

AiTexts == { JsonText(fenced, doc) : fenced \in BOOLEAN, doc \in AiDocs }

completion(content) ==
    JsObject([choices |-> JsArray(<<JsObject([message |-> JsObject([content |-> content])])>>)])

\* the bodies of an HTTP 200 answer
ResponseBodies ==
    { JsonGarbage, JsNull, JsObject(<<>>),
      JsObject([choices |-> JsArray(<<>>)]),
      JsObject([choices |-> JsArray(<<JsObject(<<>>)>>)]),
      JsObject([choices |-> JsArray(<<JsObject([message |-> JsObject(<<>>)])>>)]),
      completion(JsString("")) }
    \cup { completion(text) : text \in AiTexts }

NetOutcomes ==
    { [fetch |-> "rejects", ok |-> FALSE, body |-> JsonGarbage],
      [fetch |-> "resolves", ok |-> FALSE, body |-> JsonGarbage] }
    \cup { [fetch |-> "resolves", ok |-> TRUE, body |-> b] : b \in ResponseBodies }

\* process.env as generate reads it
GroqEnvs ==
    { [USE_AI |-> u, GROQ_API_KEY |-> k] :
        u \in {JsUndefined, JsString("false"), JsString("true")},
        k \in {JsUndefined, JsString(""), JsString(PLACEHOLDER_KEY), JsString("gsk_key")} }

\* what a call of generate may settle to
GenerateOutcomes == { groqGenerate(env, net) : env \in GroqEnvs, net \in NetOutcomes }

\* the answers the requests below meet: none, a complete document, one whose
\* refined is no string
ServedNetOutcomes ==
    { net \in NetOutcomes :
        net.ok => net.body \in { completion(JsonText(FALSE, doc)) :
                                   doc \in { d \in AiDocs :
                                               /\ d.t = "object"
                                               /\ DOMAIN d.v = {"gaps", "suggestions", "refined"}
                                               /\ d.v.gaps.t = "array"
                                               /\ d.v.suggestions.t = "object"
                                               /\ d.v.refined # JsString("") } } }

ServedOutcomes ==
    { groqGenerate(env, net) : env \in GroqEnvs, net \in ServedNetOutcomes }

(***************************************************************************)
(* models/Prompt.js and the storage helpers of controllers/                *)
(* promptController.js.  Of a stored document the model keeps the fields a *)
(* handler reads back: promptId, versions and intent.                      *)
(***************************************************************************)
\* the ids uuidv4 may return and a client may send
PromptIds == {"p1"}

\* null, where a document is expected
NoDoc == [promptId |-> ""]

\* the schema's defaults for intent
DEFAULT_INTENT == [detected |-> "", confidence |-> "low", source |-> "rule"]

\* {} as handed to the warning generator in place of an intent
EMPTY_INTENT == [confidence |-> "undefined"]

\* findPrompt: the stored document; null when there is none or the read fails
findPrompt(store, promptId, readOk) ==
    IF readOk /\ promptId.t = "string" /\ promptId.v \in DOMAIN store
    THEN store[promptId.v]
    ELSE NoDoc

\* a version's text as the schema casts it: a number becomes a string
castText(x) == IF x.t = "number" THEN JsString(ToString(x.v)) ELSE x

castDoc(doc) ==
    [doc EXCEPT !.versions =
        [i \in DOMAIN doc.versions |->
            [doc.versions[i] EXCEPT !.text = castText(doc.versions[i].text)]]]

\* text: { type: String, required: true }
validDoc(doc) ==
    \A i \in DOMAIN doc.versions :
        doc.versions[i].text.t = "string" /\ doc.versions[i].text.v # ""

\* Object.assign(existing, doc)
objectAssign(existing, doc) ==
    [k \in DOMAIN existing \cup DOMAIN doc |->
        IF k \in DOMAIN doc THEN doc[k] ELSE existing[k]]

\* Prompt.create(doc): the fields doc lacks take the schema's defaults
createDoc(doc) ==
    castDoc([k \in DOMAIN doc \cup {"intent"} |->
                IF k \in DOMAIN doc THEN doc[k] ELSE DEFAULT_INTENT])

\* the ids not in use: uuidv4 collides with none of them
FreshIds(store, pending) ==
    { id \in PromptIds :
        /\ store[id] = NoDoc
        /\ \A i \in DOMAIN pending : pending[i].doc.promptId # id }

\* savePrompt(doc) as it starts: nothing is read yet
startSave(pending, doc) ==
    Append(pending, [doc |-> doc, pc |-> "find", existing |-> NoDoc])

removeAt(seq, i) == SubSeq(seq, 1, i - 1) \o SubSeq(seq, i + 1, Len(seq))

\* mutant of settled: the handler waits for the write and reports its failure
settled_propagates(response, ok) ==
    IF ok THEN response
    ELSE [status |-> 500, body |-> [error |-> "Internal server error."]]

\* savePrompt(...).catch(() => { }): however the write ends, nothing of the
\* response changes
settled(response, ok) == response

(***************************************************************************)
(* controllers/promptController.js: what a request body may hold.          *)
(***************************************************************************)
\* an object of selections, as the list of its entries in insertion order
Selections(entries) == [t |-> "object", entries |-> entries]

AnalyzeTexts ==
    { JsUndefined, JsNumber(42), JsString(""), JsString("  "), JsString(" fix ") }

BodyPromptIds == { JsUndefined, JsString("p1") }

BodySelections ==
    { JsUndefined,
      Selections(<< <<"output_format", "Step-by-step">> >>),
      Selections(<< <<"language", "C++">> >>),
      Selections(<< <<"language", "Python">>, <<"level", "Beginner">> >>) }

ClarifyOriginalTexts == { JsUndefined, JsString(" fix ") }

RefineTexts ==
    { JsUndefined, JsString("  "),
      JsString("Tell me about French cooking history") }

RefineOriginalTexts ==
    { JsUndefined, JsString("Write a Python function to sort a list") }

(***************************************************************************)
(* controllers/promptController.js: the handlers.                          *)
(***************************************************************************)
NoResponse == [status |-> 0]

NoRequest == [pc |-> "idle"]

INTERNAL_ERROR == [status |-> 500, body |-> [error |-> "Internal server error."]]

\* stands for the pictograph and the space put before the drift warning
DRIFT_MARK == "[drift] "

\* a reference to the array DEFAULT_SUGGESTIONS[category]
ChipsRef(category) == [t |-> "ref", v |-> category]

\* the strings a request may bring or a stored prompt may begin with
FirstTexts ==
    { trim(jsToString(t)) : t \in { x \in AnalyzeTexts : truthy(x) } }
    \cup { jsToString(t) :
             t \in { x \in ClarifyOriginalTexts \cup RefineOriginalTexts \cup RefineTexts :
                       truthy(x) } }

\* Object.entries(selections).map(([k, v]) => `${k}: ${v}`).join(', ')
selectionList(selections) ==
    join([i \in DOMAIN selections.entries |->
            selections.entries[i][1] \o ": " \o selections.entries[i][2]], ", ")

\* rawText + ' [' + ... + ']'
withSelections(rawText, selections) ==
    rawText \o " [" \o selectionList(selections) \o "]"

\* the texts the handlers may hand to the services
ServedTexts ==
    FirstTexts \cup {AI_REFINED}
    \cup { withSelections(f, sel) :
             f \in FirstTexts, sel \in { x \in BodySelections : truthy(x) } }

\* the services' results on these texts, worked out once
intentTable == [text \in ServedTexts |-> intentDetectByRules(text)]

gapsTable == [text \in ServedTexts |-> constraintDetectByRules(text)]

scoreTable ==
    [text \in ServedTexts |->
        [gaps \in { gapsTable[text].gaps }
                  \cup { d.v.gaps.v : d \in { x \in AiDocs : x.t = "object"
                                                  /\ "gaps" \in DOMAIN x.v
                                                  /\ x.v.gaps.t = "array" } }
                  \cup { <<>> }
            |-> scoreByRules(text, gaps)]]

driftTable ==
    [pair \in FirstTexts \X ServedTexts |-> driftDetectByRules(pair[1], pair[2])]

\* intentDetector.detect
intentDetectorDetect(text) == intentTable[text]

\* constraintDetector.detect: the arrays of suggestions are handed out by
\* reference, not copied
detectGaps(text) ==
    [gaps |-> gapsTable[text].gaps,
     suggestions |->
        JsObject([c \in DOMAIN gapsTable[text].suggestions |-> ChipsRef(c)])]

\* scoringEngine.score
scoringEngineScore(text, gaps) == scoreTable[text][gaps]

\* driftDetector.detect
driftDetectorDetect(originalText, refinedText) ==
    driftTable[<<originalText, refinedText>>]

\* res.json(x), for the suggestions: a referenced array is read as it is now
jsonSuggestions(table, x) ==
    IF x.t = "object"
    THEN JsObject([c \in DOMAIN x.v |->
                     IF x.v[c].t = "ref" THEN JsArray(table[x.v[c].v]) ELSE x.v[c]])
    ELSE x

\* the request r after one more call of a core function on text
invoke(r, fn, text) ==
    [r EXCEPT !.invoked = Append(@, [fn |-> fn, text |-> text])]

\* how a handler ends: the request r, the response sent, the document handed
\* to savePrompt (NoDoc when the handler ends before it) and the suggestion
\* arrays as the handler leaves them
ended(r, response, doc, table) ==
    [req |-> [r EXCEPT !.pc = "done"], res |-> response, doc |-> doc,
     chips |-> table]

\* mutant of receivedText: the text is used as it came, untrimmed
receivedText_untrimmed(text) == text.v

\* const rawText = text.trim()
receivedText(text) == trim(text.v)

\* mutant of generateReturned: a null answer is asked for once more
generateReturned_retry(r, raw) ==
    [r EXCEPT !.generateNull = ~truthy(raw),
              !.generateCalls = IF truthy(raw) THEN @ ELSE @ + 1]

\* const raw = await groq.generate(prompt); if (!raw) return null;
generateReturned(r, raw) == [r EXCEPT !.generateNull = ~truthy(raw)]

\* the locals of a handler that has called promptAnalyzer.analyze, which has
\* called generate, and waits for it
awaitingAI(r, locals) ==
    objectAssign(r, objectAssign(locals,
        [pc |-> "awaitAI", generateCalls |-> r.generateCalls + 1,
         generateNull |-> FALSE, aiResult |-> JsUndefined]))

\* analyzePrompt, lines 76-115: from the result of promptAnalyzer.analyze on
analyzeFinish(r, aiResult, table) ==
    LET useAi == truthy(aiResult)
        gaps == IF useAi THEN aiResult.v.gaps.v ELSE r.ruleConstraints.gaps
        suggestions == IF useAi THEN aiResult.v.suggestions
                       ELSE r.ruleConstraints.suggestions
        structuredText == IF useAi THEN aiResult.v.refined ELSE JsString(r.rawText)
        finalScores == scoringEngineScore(r.rawText, gaps)
        warnings == generateWarnings(finalScores, gaps, r.intent)
        versions == << [label |-> "v0_raw", text |-> JsString(r.rawText)],
                       [label |-> "v1_structured", text |-> structuredText] >>
        result == [promptId |-> r.promptId, intent |-> r.intent, gaps |-> gaps,
                   suggestions |-> jsonSuggestions(table, suggestions),
                   scores |-> finalScores, warnings |-> warnings,
                   versions |-> versions, driftWarning |-> ""]
    IN  ended(invoke(r, "scoringEngine.score", JsString(r.rawText)),
              [status |-> 200, body |-> result],
              [promptId |-> r.promptId, versions |-> versions, intent |-> r.intent],
              table)

\* existing?.intent || {}
storedIntent(existing) ==
    IF existing # NoDoc THEN existing.intent ELSE EMPTY_INTENT

\* the label and the list of versions of clarifyPrompt and refinePrompt
nextVersions(existing, first, kind, refined) ==
    IF existing # NoDoc
    THEN Append(existing.versions,
                [label |-> "v" \o ToString(Len(existing.versions)) \o "_" \o kind,
                 text |-> refined])
    ELSE << [label |-> "v0_raw", text |-> first],
            [label |-> "v2_" \o kind, text |-> refined] >>

\* clarifyPrompt, lines 146-198; score throws a TypeError on a refined text
\* that is no string
clarifyFinish(r, aiResult, table) ==
    LET useAi == truthy(aiResult)
        refined == IF useAi THEN aiResult.v.refined
                   ELSE JsString(withSelections(jsToString(r.rawText),
                                                r.body.selections))
        r1 == IF useAi THEN r ELSE invoke(r, "constraintDetector.detect", refined)
        r2 == invoke(r1, "scoringEngine.score", refined)
        gaps == IF useAi THEN aiResult.v.gaps.v ELSE detectGaps(refined.v).gaps
        suggestions == IF useAi THEN aiResult.v.suggestions
                       ELSE detectGaps(refined.v).suggestions
    IN  IF refined.t # "string" THEN ended(r2, INTERNAL_ERROR, NoDoc, table)
        ELSE LET scores == scoringEngineScore(refined.v, gaps)
                 warnings == generateWarnings(scores, gaps, storedIntent(r.existing))
                 versions == nextVersions(r.existing, r.rawText, "clarified", refined)
                 result == [promptId |-> r.body.promptId.v, refined |-> refined,
                            constraints |-> r.body.selections, gaps |-> gaps,
                            suggestions |-> jsonSuggestions(table, suggestions),
                            scores |-> scores, warnings |-> warnings,
                            versions |-> versions]
             IN  ended(r2, [status |-> 200, body |-> result],
                       [promptId |-> r.body.promptId.v, versions |-> versions],
                       table)

\* mutant of addDriftWarning: the drift warning is put last
addDriftWarning_push(table, warnings, drift) ==
    [chips |-> table,
     warnings |-> IF drift.driftDetected
                  THEN Append(warnings, DRIFT_MARK \o drift.driftWarning)
                  ELSE warnings]

\* mutant of addDriftWarning: the drift warning is put into an array that
\* detect handed out, not into the list of warnings
addDriftWarning_intoChips(table, warnings, drift) ==
    [chips |-> IF drift.driftDetected
               THEN [table EXCEPT !.examples = <<DRIFT_MARK \o drift.driftWarning>> \o @]
               ELSE table,
     warnings |-> warnings]

\* if (drift.driftDetected) warnings.unshift(...): the array the warning
\* generator made for this call is changed in place, and no other array
addDriftWarning(table, warnings, drift) ==
    [chips |-> table,
     warnings |-> IF drift.driftDetected
                  THEN <<DRIFT_MARK \o drift.driftWarning>> \o warnings
                  ELSE warnings]

\* refinePrompt, lines 224-270; the drift detector throws a TypeError on a
\* text that is no string
refineFinish(r, aiResult, table) ==
    LET refined == IF truthy(aiResult) THEN aiResult.v.refined ELSE r.body.text
        r1 == invoke(invoke(r, "driftDetector.detect", r.originalText),
                     "driftDetector.detect", refined)
    IN  IF r.originalText.t # "string" \/ refined.t # "string"
        THEN ended(r1, INTERNAL_ERROR, NoDoc, table)
        ELSE LET drift == driftDetectorDetect(r.originalText.v, refined.v)
                 ruleConstraints == detectGaps(refined.v)
                 scores == scoringEngineScore(refined.v, ruleConstraints.gaps)
                 added == addDriftWarning(table,
                            generateWarnings(scores, ruleConstraints.gaps,
                                             storedIntent(r.existing)),
                            drift)
                 versions == nextVersions(r.existing, r.originalText, "refined", refined)
                 promptId == IF truthy(r.body.promptId) THEN r.body.promptId.v
                             ELSE r.uuid
                 result == [promptId |-> promptId, refined |-> refined,
                            scores |-> scores, warnings |-> added.warnings,
                            driftWarning |-> drift.driftWarning,
                            driftDetected |-> drift.driftDetected,
                            versions |-> versions]
                 r2 == invoke(invoke(r1, "constraintDetector.detect", refined),
                              "scoringEngine.score", refined)
             IN  ended(r2, [status |-> 200, body |-> result],
                       [promptId |-> promptId, versions |-> versions],
                       added.chips)

\* the request r when generate has settled with the value raw and
\* promptAnalyzer.analyze has returned
resumed(r, raw) ==
    [generateReturned(r, raw) EXCEPT !.aiResult = analyzeRaw(raw)]

\* a rejection of generate would reach the handler's catch
failed(r, table) == ended(r, INTERNAL_ERROR, NoDoc, table)

(***************************************************************************)
(* The calls: each entry point of the core, applied to one input.          *)
(***************************************************************************)
Idle == [op |-> "idle"]

\* the server as it starts: no call, no request, an empty collection, the
\* suggestions as written
ServerStarted ==
    /\ call = Idle
    /\ ret = <<>>
    /\ req = NoRequest
    /\ res = NoResponse
    /\ chips = DEFAULT_SUGGESTIONS
    /\ db = [id \in PromptIds |-> NoDoc]
    /\ saves = <<>>
    /\ inflight = <<>>
    /\ issued = 0

\* null, where a panel host or its shadow root is expected
NoHost == 0

\* the promptId of the response to the k-th request made from the panel with
\* host h: the backend makes a new one for every analysis
promptIdOf(h, k) == [panel |-> h, k |-> k]

\* null, where a promptId is expected
NoPromptId == promptIdOf(NoHost, 0)

\* the service worker as it starts: no listener runs, nothing was called
WorkerStarted ==
    /\ triggers = <<>>
    /\ scripting = {}
    /\ messages = {}

\* a page before content.js is injected: let panelHost = null, ... (lines 23-28)
PageLoaded ==
    /\ injections = 0
    /\ listeners = 0
    /\ panels = <<>>
    /\ panelHost = NoHost
    /\ shadowRoot = NoHost
    /\ currentPromptId = NoPromptId
    /\ panelOriginalText = ""
    /\ timers = <<>>
    /\ fetches = {}

\* the entry saveToHistory makes of the k-th analysis: its id is the promptId
\* of the response and its timestamp the time of the call; of the other
\* fields (text, score, maxScore, intent) nothing is read back
historyEntry(k) == [id |-> "h" \o ToString(k), timestamp |-> k]

\* a list that n earlier analyses, made one after another at the times
\* 1 - n, ..., 0, have left: the newest entry first
historyOf(n) == [i \in 1..n |-> historyEntry(1 - i)]

\* storage holds the entries of n earlier analyses and no operation is under way
StorageHolds(n) ==
    /\ piHistory = historyOf(n)
    /\ storageOps = <<>>
    /\ now = 0
    /\ removed = {}

\* the server and the extension as they start, with an empty history
Init ==
    /\ ServerStarted
    /\ WorkerStarted
    /\ PageLoaded
    /\ StorageHolds(0)

\* intentDetector.detect
intentDetect ==
    /\ call = Idle
    /\ \E text \in Texts :
        /\ call' = [op |-> "intentDetect", text |-> text]
        /\ ret' = intentDetectByRules(text)
    /\ UNCHANGED <<httpVars, storeVars, extensionVars>>

\* constraintDetector.detect
constraintDetect ==
    /\ call = Idle
    /\ \E text \in Texts :
        /\ call' = [op |-> "constraintDetect", text |-> text]
        /\ ret' = constraintDetectByRules(text)
    /\ UNCHANGED <<httpVars, storeVars, extensionVars>>

\* scoringEngine.score
score ==
    /\ call = Idle
    /\ \E text \in Texts, gaps \in AiGapLists :
        /\ call' = [op |-> "score", text |-> text, gaps |-> gaps]
        /\ ret' = scoreByRules(text, gaps)
    /\ UNCHANGED <<httpVars, storeVars, extensionVars>>

\* warningGenerator.generate
generate ==
    /\ call = Idle
    /\ \E scores \in ScoreCards, gaps \in GapLists, intent \in Intents :
        /\ call' = [op |-> "generate", scores |-> scores, gaps |-> gaps,
                    intent |-> intent]
        /\ ret' = generateWarnings(scores, gaps, intent)
    /\ UNCHANGED <<httpVars, storeVars, extensionVars>>

\* driftDetector.detect
driftDetect ==
    /\ call = Idle
    /\ \E originalText \in OriginalTexts, refinedText \in RefinedTexts :
        /\ call' = [op |-> "driftDetect", originalText |-> originalText,
                    refinedText |-> refinedText]
        /\ ret' = driftDetectByRules(originalText, refinedText)
    /\ UNCHANGED <<httpVars, storeVars, extensionVars>>

\* the caller takes the value; the core keeps nothing
Return ==
    /\ call # Idle
    /\ call' = Idle
    /\ ret' = <<>>
    /\ UNCHANGED <<httpVars, storeVars, extensionVars>>

\* groqClient.generate: the prompt sent plays no part in how the call ends
groqCall ==
    /\ call = Idle
    /\ \E env \in GroqEnvs, net \in NetOutcomes :
        /\ call' = [op |-> "groqGenerate", env |-> env, net |-> net]
        /\ ret' = groqGenerate(env, net)
    /\ UNCHANGED <<httpVars, storeVars, extensionVars>>

\* promptAnalyzer.analyze, from the value generate resolved to on
analyze ==
    /\ call = Idle
    /\ \E raw \in {JsNull} \cup AiTexts :
        /\ call' = [op |-> "analyze", raw |-> raw]
        /\ ret' = analyzeRaw(raw)
    /\ UNCHANGED <<httpVars, storeVars, extensionVars>>

Next ==
    \/ intentDetect
    \/ constraintDetect
    \/ score
    \/ generate
    \/ driftDetect
    \/ groqCall
    \/ analyze
    \/ Return

Spec == Init /\ [][Next]_vars

(***************************************************************************)
(* The requests: one is handled at a time, and the next is taken up when   *)
(* the storage write of the one before has settled.                        *)
(***************************************************************************)
BAD_TEXT == [status |-> 400, body |-> [error |-> "Missing or empty \"text\" field."]]

\* POST /api/prompt, up to the call of promptAnalyzer.analyze
analyzePrompt ==
    /\ req = NoRequest
    /\ saves = <<>>
    /\ \E text \in AnalyzeTexts :
        LET r == [pc |-> "received", handler |-> "analyzePrompt",
                  body |-> [text |-> text], invoked |-> <<>>, generateCalls |-> 0]
        IN  IF ~truthy(text) \/ ~isString(text) \/ Len(trim(text.v)) = 0
            THEN /\ req' = [r EXCEPT !.pc = "done"]
                 /\ res' = BAD_TEXT
            ELSE \E promptId \in FreshIds(db, saves) :
                    LET rawText == receivedText(text)
                        r1 == invoke(invoke(r, "intentDetector.detect", JsString(rawText)),
                                     "constraintDetector.detect", JsString(rawText))
                    IN  /\ req' = awaitingAI(r1,
                                    [rawText |-> rawText, promptId |-> promptId,
                                     intent |-> intentDetectorDetect(rawText),
                                     ruleConstraints |-> detectGaps(rawText)])
                        /\ res' = NoResponse
    /\ UNCHANGED <<chips, db, saves, coreVars, storeVars, extensionVars>>

\* POST /api/clarify, up to the call of promptAnalyzer.analyze
clarifyPrompt ==
    /\ req = NoRequest
    /\ saves = <<>>
    /\ \E promptId \in BodyPromptIds, selections \in BodySelections,
          originalText \in ClarifyOriginalTexts, readOk \in BOOLEAN :
        LET r == [pc |-> "received", handler |-> "clarifyPrompt",
                  body |-> [promptId |-> promptId, selections |-> selections,
                            originalText |-> originalText],
                  invoked |-> <<>>, generateCalls |-> 0]
            existing == findPrompt(db, promptId, readOk)
            rawText == IF existing # NoDoc THEN existing.versions[1].text
                       ELSE IF truthy(originalText) THEN originalText
                       ELSE JsString("")
        IN  IF ~truthy(promptId) \/ ~truthy(selections)
            THEN /\ req' = [r EXCEPT !.pc = "done"]
                 /\ res' = [status |-> 400,
                            body |-> [error |-> "Missing \"promptId\" or \"selections\"."]]
            ELSE IF ~truthy(rawText)
            THEN /\ req' = [r EXCEPT !.pc = "done"]
                 /\ res' = [status |-> 404,
                            body |-> [error |-> "Prompt not found. Provide \"originalText\"."]]
            ELSE /\ existing # NoDoc => Len(existing.versions) < MaxVersions
                 /\ req' = awaitingAI(r, [existing |-> existing, rawText |-> rawText])
                 /\ res' = NoResponse
    /\ UNCHANGED <<chips, db, saves, coreVars, storeVars, extensionVars>>

\* POST /api/refine, up to the call of promptAnalyzer.analyze
refinePrompt ==
    /\ req = NoRequest
    /\ saves = <<>>
    /\ \E promptId \in BodyPromptIds, text \in RefineTexts,
          originalText \in RefineOriginalTexts, readOk \in BOOLEAN :
        LET r == [pc |-> "received", handler |-> "refinePrompt",
                  body |-> [promptId |-> promptId, text |-> text,
                            constraints |-> JsUndefined,
                            originalText |-> originalText],
                  invoked |-> <<>>, generateCalls |-> 0]
            existing == findPrompt(db, promptId, readOk)
        IN  IF ~truthy(text)
            THEN /\ req' = [r EXCEPT !.pc = "done"]
                 /\ res' = [status |-> 400, body |-> [error |-> "Missing \"text\" field."]]
            ELSE /\ existing # NoDoc => Len(existing.versions) < MaxVersions
                 /\ \E uuid \in IF truthy(promptId) THEN {""} ELSE FreshIds(db, saves) :
                        req' = awaitingAI(r,
                                 [existing |-> existing, uuid |-> uuid,
                                  originalText |->
                                     IF existing # NoDoc THEN existing.versions[1].text
                                     ELSE IF truthy(originalText) THEN originalText
                                     ELSE text])
                 /\ res' = NoResponse
    /\ UNCHANGED <<chips, db, saves, coreVars, storeVars, extensionVars>>

\* the handler ends: it starts savePrompt and, without waiting for it, sends
\* the response
respond(end) ==
    /\ req' = end.req
    /\ res' = end.res
    /\ chips' = end.chips
    /\ saves' = IF end.doc = NoDoc THEN saves ELSE startSave(saves, end.doc)

\* generate settles and analyzePrompt runs to its end
analyzePromptResumes ==
    /\ req.pc = "awaitAI"
    /\ req.handler = "analyzePrompt"
    /\ \E outcome \in ServedOutcomes :
        \E end \in { IF outcome.kind = "rejected" THEN failed(req, chips)
                     ELSE analyzeFinish(resumed(req, outcome.value),
                                        analyzeRaw(outcome.value), chips) } :
            respond(end)
    /\ UNCHANGED <<db, coreVars, storeVars, extensionVars>>

\* generate settles and clarifyPrompt runs to its end
clarifyPromptResumes ==
    /\ req.pc = "awaitAI"
    /\ req.handler = "clarifyPrompt"
    /\ \E outcome \in ServedOutcomes :
        \E end \in { IF outcome.kind = "rejected" THEN failed(req, chips)
                     ELSE clarifyFinish(resumed(req, outcome.value),
                                        analyzeRaw(outcome.value), chips) } :
            respond(end)
    /\ UNCHANGED <<db, coreVars, storeVars, extensionVars>>

\* generate settles and refinePrompt runs to its end
refinePromptResumes ==
    /\ req.pc = "awaitAI"
    /\ req.handler = "refinePrompt"
    /\ \E outcome \in ServedOutcomes :
        \E end \in { IF outcome.kind = "rejected" THEN failed(req, chips)
                     ELSE refineFinish(resumed(req, outcome.value),
                                       analyzeRaw(outcome.value), chips) } :
            respond(end)
    /\ UNCHANGED <<db, coreVars, storeVars, extensionVars>>

\* savePrompt i, the read: Prompt.findOne finds the document or finds none
\* (readOk), or fails, and then savePrompt is over
saveFound(i, readOk) ==
    /\ saves[i].pc = "find"
    /\ saves' = IF readOk
                THEN [saves EXCEPT ![i] =
                        [@ EXCEPT !.pc = "write",
                                  !.existing = db[saves[i].doc.promptId]]]
                ELSE removeAt(saves, i)
    /\ res' = settled(res, readOk)

\* savePrompt i, the write: existing.save() of the document read, with the
\* new fields assigned, or Prompt.create(doc); the write fails when writeOk
\* is false, when a text is missing or, for create, when the promptId is taken
saveWritten(i, writeOk) ==
    LET save == saves[i]
        id == save.doc.promptId
        stored == IF save.existing # NoDoc
                  THEN castDoc(objectAssign(save.existing, save.doc))
                  ELSE createDoc(save.doc)
        accepted == /\ writeOk
                    /\ validDoc(stored)
                    /\ save.existing = NoDoc => db[id] = NoDoc
    IN  /\ save.pc = "write"
        /\ db' = IF accepted THEN [db EXCEPT ![id] = stored] ELSE db
        /\ saves' = removeAt(saves, i)
        /\ res' = settled(res, accepted)

\* a savePrompt reads; the database may fail
saveFind ==
    /\ \E i \in DOMAIN saves, readOk \in BOOLEAN : saveFound(i, readOk)
    /\ UNCHANGED <<req, chips, db, coreVars, storeVars, extensionVars>>

\* a savePrompt writes; the database may fail
saveWrite ==
    /\ \E i \in DOMAIN saves, writeOk \in BOOLEAN : saveWritten(i, writeOk)
    /\ UNCHANGED <<req, chips, coreVars, storeVars, extensionVars>>

\* the handler has returned; the next request may come
requestDone ==
    /\ req.pc = "done"
    /\ req' = NoRequest
    /\ res' = NoResponse
    /\ UNCHANGED <<chips, db, saves, coreVars, storeVars, extensionVars>>

HttpNext ==
    \/ analyzePrompt
    \/ clarifyPrompt
    \/ refinePrompt
    \/ analyzePromptResumes
    \/ clarifyPromptResumes
    \/ refinePromptResumes
    \/ saveFind
    \/ saveWrite
    \/ requestDone

HttpSpec == Init /\ [][HttpNext]_vars

(***************************************************************************)
(* Properties.                                                             *)
(***************************************************************************)
subScoreSum(sc) == sc.clarity + sc.completeness + sc.specificity + sc.intentAlignment

\* C1: for every text and every gaps list of any length, score returns
\* clarity, specificity and intentAlignment in 0..10, completeness in 1..10
\* and a total that is their sum and lies in 0..40.
C1_ScoreCardWellFormed ==
    call.op = "score" =>
        /\ ret.clarity \in 0..10
        /\ ret.specificity \in 0..10
        /\ ret.intentAlignment \in 0..10
        /\ ret.completeness \in 1..10
        /\ ret.total = subScoreSum(ret)
        /\ ret.total \in 0..40

\* a gaps list longer than the five categories, scored at the floor
C1_Witness ==
    /\ call.op = "score"
    /\ Len(call.gaps) > Len(CATEGORIES)
    /\ ret.completeness = 1
    /\ ret.total = subScoreSum(ret)

\* the rules of the table with a keyword occurring in the lower-cased text
matchingRules(lower) ==
    { r \in 1..Len(INTENT_RULES) :
        \E kw \in Range(INTENT_RULES[r].keywords) : includes(lower, kw) }

firstMatchingRule(lower) ==
    CHOOSE r \in matchingRules(lower) : \A q \in matchingRules(lower) : r <= q

hasExplainAndFix(text) ==
    /\ includes(toLowerCase(text), "explain")
    /\ includes(toLowerCase(text), "fix")

hasCodeGenerationKeyword(text) ==
    \E kw \in Range(INTENT_RULES[1].keywords) : includes(toLowerCase(text), kw)

\* C3 as stated: every text containing both "explain" and "fix" is classified
\* explanation.
C3_Original ==
    (call.op = "intentDetect" /\ hasExplainAndFix(call.text)) =>
        ret.detected = "explanation"

\* C3 amended: a text containing both "explain" and "fix" is never classified
\* debugging; it is classified explanation unless it also contains a keyword
\* of the earlier code_generation rule, and then code_generation.
C3_ExplainBeforeFix ==
    (call.op = "intentDetect" /\ hasExplainAndFix(call.text)) =>
        /\ ret.detected # "debugging"
        /\ ret.detected =
             IF hasCodeGenerationKeyword(call.text) THEN "code_generation"
             ELSE "explanation"

C3_Witness ==
    /\ call.op = "intentDetect"
    /\ hasExplainAndFix(call.text)
    /\ ~hasCodeGenerationKeyword(call.text)
    /\ ret.detected = "explanation"

categoryIndex(c) == CHOOSE i \in 1..Len(CATEGORIES) : CATEGORIES[i] = c

\* the detector's judgement of one category on the lower-cased text
judgedPresent(c, lower) ==
    CASE c = "language" -> hasLanguage(lower)
      [] c = "level" -> hasLevel(lower)
      [] c = "output_format" -> hasFormat(lower)
      [] c = "scope" -> hasScope(lower)
      [] c = "examples" -> hasExamples(lower)

\* C4: gaps is a duplicate-free subsequence of (language, level,
\* output_format, scope, examples) in that order, holding exactly the
\* categories judged absent, and the keys of suggestions are exactly the
\* categories in gaps, as many as gaps has entries.
C4_GapsWellFormed ==
    call.op = "constraintDetect" =>
        LET lower == toLowerCase(call.text)
            gaps == ret.gaps
        IN  /\ Range(gaps) \subseteq Range(CATEGORIES)
            /\ \A i, j \in 1..Len(gaps) :
                   i < j => categoryIndex(gaps[i]) < categoryIndex(gaps[j])
            /\ \A c \in Range(CATEGORIES) :
                   c \in Range(gaps) <=> ~judgedPresent(c, lower)
            /\ DOMAIN ret.suggestions = Range(gaps)
            /\ Cardinality(DOMAIN ret.suggestions) = Len(gaps)

\* some categories are present and some absent, scope among the absent ones
C4_Witness ==
    /\ call.op = "constraintDetect"
    /\ Len(ret.gaps) \in 2..4
    /\ "language" \notin Range(ret.gaps)
    /\ "scope" \in Range(ret.gaps)
    /\ DOMAIN ret.suggestions = Range(ret.gaps)

\* C5: every category in gaps has between 3 and 6 suggestions attached.
C5_SuggestionCount ==
    call.op = "constraintDetect" =>
        \A c \in Range(ret.gaps) : Len(ret.suggestions[c]) \in 3..6

isAlnum(c) == c \in UpperSet \cup LowerSet \cup DigitSet

isAlnumAt(s, i) == i >= 1 /\ i <= Len(s) /\ isAlnum(charAt(s, i))

occurrences(ind, s) ==
    { i \in 1..(Len(s) - Len(ind) + 1) : SubSeq(s, i, i + Len(ind) - 1) = ind }

\* ind is made of letters and digits and each of its occurrences in s has a
\* letter or digit right before or right after it
onlyEmbedded(ind, s) ==
    /\ \A k \in 1..Len(ind) : isAlnumAt(ind, k)
    /\ \A i \in occurrences(ind, s) :
           isAlnumAt(s, i - 1) \/ isAlnumAt(s, i + Len(ind))

\* C6: "algorithm" has language in gaps, "Let's use R for this" has not, and
\* when every language indicator occurring in the text is one of length <= 3
\* that occurs only embedded in a longer run of letters and digits, language
\* is in gaps.
C6_ShortLanguageWordBounded ==
    call.op = "constraintDetect" =>
        LET lower == toLowerCase(call.text)
        IN  /\ call.text = "algorithm" => "language" \in Range(ret.gaps)
            /\ call.text = "Let's use R for this" => "language" \notin Range(ret.gaps)
            /\ (\A lang \in Range(LANGUAGES) :
                    includes(lower, lang) => (Len(lang) <= 3 /\ onlyEmbedded(lang, lower)))
               => "language" \in Range(ret.gaps)

\* short language names occur, all embedded in a longer word, and language
\* is reported missing
C6_Witness ==
    /\ call.op = "constraintDetect"
    /\ includes(toLowerCase(call.text), "r")
    /\ includes(toLowerCase(call.text), "go")
    /\ \A lang \in Range(LANGUAGES) :
           includes(toLowerCase(call.text), lang) =>
               (Len(lang) <= 3 /\ onlyEmbedded(lang, toLowerCase(call.text)))
    /\ "language" \in Range(ret.gaps)

indicatorsOf(c) ==
    CASE c = "language" -> LANGUAGES
      [] c = "level" -> LEVELS
      [] c = "output_format" -> OUTPUT_FORMATS
      [] c = "scope" -> SCOPE_INDICATORS
      [] c = "examples" -> EXAMPLE_INDICATORS

\* C7: in every category, a category counts as present only through an
\* indicator longer than 3 characters occurring as a substring or an indicator
\* of at most 3 characters occurring between word boundaries.
C7_ShortIndicatorsWordBounded ==
    call.op = "constraintDetect" =>
        LET lower == toLowerCase(call.text)
        IN  \A c \in Range(CATEGORIES) :
                c \notin Range(ret.gaps) =>
                    \E ind \in Range(indicatorsOf(c)) :
                        IF Len(ind) <= 3
                        THEN wordRegexTest(escapeRegex(ind), lower)
                        ELSE includes(lower, ind)

\* C8: driftDetected holds exactly when the original has a keyword and the
\* share of its keyword occurrences found in the refined keyword set is below
\* 0.4 (exactly 0.4 is no drift, no keyword is no drift), and driftWarning is
\* empty exactly when driftDetected is false.
C8_DriftThreshold ==
    call.op = "driftDetect" =>
        LET orig == extractKeywords(call.originalText)
            refined == Range(extractKeywords(call.refinedText))
            hits == Cardinality({ i \in 1..Len(orig) : orig[i] \in refined })
        IN  /\ ret.driftDetected \in BOOLEAN
            /\ ret.driftDetected <=> (Len(orig) >= 1 /\ 10 * hits < 4 * Len(orig))
            /\ (ret.driftWarning = "") <=> ~ret.driftDetected

\* two of five original keywords survive: the ratio is exactly 0.4, no drift
C8_Witness ==
    /\ call.op = "driftDetect"
    /\ Len(extractKeywords(call.originalText)) = 5
    /\ Cardinality({ i \in 1..5 : extractKeywords(call.originalText)[i]
                                    \in Range(extractKeywords(call.refinedText)) }) = 2
    /\ ret = [driftDetected |-> FALSE, driftWarning |-> ""]

noConditionFires(scores, gaps, intent) ==
    /\ scores.specificity > 5
    /\ Len(gaps) < 2
    /\ scores.clarity > 3
    /\ scores.intentAlignment > 3
    /\ intent.confidence # "low"
    /\ scores.total > 12

\* C9: generateWarnings returns the empty list exactly when specificity > 5,
\* |gaps| < 2, clarity > 3, intentAlignment > 3, confidence is not low and
\* total > 12; so it does for scores 10/10/10/10 (total 40), no gaps and
\* confidence high.
C9_NoWarningsIffNoCondition ==
    call.op = "generate" =>
        /\ ret = <<>> <=> noConditionFires(call.scores, call.gaps, call.intent)
        /\ ( /\ call.scores = [clarity |-> 10, completeness |-> 10, specificity |-> 10,
                               intentAlignment |-> 10, total |-> 40]
             /\ call.gaps = <<>>
             /\ call.intent.confidence = "high" ) => ret = <<>>

C9_Witness ==
    /\ call.op = "generate"
    /\ call.scores = [clarity |-> 10, completeness |-> 10, specificity |-> 10,
                      intentAlignment |-> 10, total |-> 40]
    /\ call.gaps = <<>>
    /\ call.intent.confidence = "high"
    /\ ret = <<>>

\* the place of a message in the fixed priority order, 0 for any other string
priorityOf(msg, gaps) ==
    CASE msg \in {MSG_HIGH_RISK, MSG_MODERATE_RISK} -> 1
      [] msg \in {MSG_MOST_MISSING, msgMissing(gaps)} -> 2
      [] msg = MSG_LOW_CLARITY -> 3
      [] msg = MSG_UNCLEAR_INTENT -> 4
      [] msg = MSG_LOW_CONFIDENCE -> 5
      [] msg = MSG_LOW_TOTAL -> 6
      [] OTHER -> 0

\* C10: the list holds one message for every condition that fires and no
\* other, in the order hallucination risk, missing constraints, low clarity,
\* low intent alignment, low confidence, low total; never both hallucination
\* messages, never both missing-constraint messages, never more than 6 entries.
C10_WarningsInPriorityOrder ==
    call.op = "generate" =>
        LET sc == call.scores
            gaps == call.gaps
            msgs == Range(ret)
        IN  /\ MSG_HIGH_RISK \in msgs <=> sc.specificity <= 3
            /\ MSG_MODERATE_RISK \in msgs <=> (sc.specificity > 3 /\ sc.specificity <= 5)
            /\ MSG_MOST_MISSING \in msgs <=> Len(gaps) >= 4
            /\ msgMissing(gaps) \in msgs <=> (Len(gaps) >= 2 /\ Len(gaps) < 4)
            /\ MSG_LOW_CLARITY \in msgs <=> sc.clarity <= 3
            /\ MSG_UNCLEAR_INTENT \in msgs <=> sc.intentAlignment <= 3
            /\ MSG_LOW_CONFIDENCE \in msgs <=> call.intent.confidence = "low"
            /\ MSG_LOW_TOTAL \in msgs <=> sc.total <= 12
            /\ \A i \in 1..Len(ret) : priorityOf(ret[i], gaps) >= 1
            /\ \A i, j \in 1..Len(ret) :
                   i < j => priorityOf(ret[i], gaps) < priorityOf(ret[j], gaps)
            /\ ~(MSG_HIGH_RISK \in msgs /\ MSG_MODERATE_RISK \in msgs)
            /\ ~(MSG_MOST_MISSING \in msgs /\ msgMissing(gaps) \in msgs)
            /\ Len(ret) <= 6

\* all six conditions fire at once
C10_Witness ==
    /\ call.op = "generate"
    /\ Len(ret) = 6
    /\ ret[1] = MSG_HIGH_RISK
    /\ ret[2] = MSG_MOST_MISSING
    /\ ret[6] = MSG_LOW_TOTAL

\* the texts the request in hand has handed to the core functions so far
invokedTexts ==
    IF req = NoRequest THEN {}
    ELSE { req.invoked[i].text : i \in DOMAIN req.invoked }

\* C11: in each of the three endpoints, every text handed to a core function
\* (the gap detector, the scoring engine, the drift detector) is a non-empty,
\* trimmed string
C11_CoreTextNonEmptyTrimmed ==
    \A t \in invokedTexts : isString(t) /\ t.v # "" /\ trim(t.v) = t.v

\* req.body.text is a text POST /api/prompt accepts
validText(text) == truthy(text) /\ isString(text) /\ Len(trim(text.v)) > 0

\* the result the rule-based components alone give on the text rawText
ruleBasedResult(rawText) ==
    LET intent == intentDetectByRules(rawText)
        found == constraintDetectByRules(rawText)
        scores == scoreByRules(rawText, found.gaps)
    IN  [intent |-> intent,
         gaps |-> found.gaps,
         suggestions |-> JsObject([c \in DOMAIN found.suggestions |->
                                     JsArray(found.suggestions[c])]),
         scores |-> scores,
         warnings |-> generateWarnings(scores, found.gaps, intent),
         versions |-> << [label |-> "v0_raw", text |-> JsString(rawText)],
                         [label |-> "v1_structured", text |-> JsString(rawText)] >>]

\* POST /api/prompt has been handled, with a valid text, and generate
\* yielded null
analyzedWithoutAI ==
    /\ req # NoRequest
    /\ req.handler = "analyzePrompt"
    /\ req.pc = "done"
    /\ validText(req.body.text)
    /\ req.generateNull

\* C12: whenever generate yields null, POST /api/prompt with a valid text
\* answers 200 with the result of the rule-based components on the trimmed
\* text: intent, gaps, suggestions, scores, warnings, and a v1_structured
\* version whose text is the raw text
C12_RuleBasedFallbackComplete ==
    analyzedWithoutAI =>
        /\ res.status = 200
        /\ \A k \in DOMAIN ruleBasedResult(trim(req.body.text.v)) :
              res.body[k] = ruleBasedResult(trim(req.body.text.v))[k]

C12_Witness ==
    /\ analyzedWithoutAI
    /\ res.status = 200
    /\ res.body.versions[2] = [label |-> "v1_structured", text |-> JsString("fix")]
    /\ res.body.gaps # <<>>

\* the AI response raw parses as JSON whose gaps is an array, whose
\* suggestions is an object and whose refined is a non-empty string
wellFormedResponse(raw) ==
    /\ raw.t = "text"
    /\ jsonParse(stripFences(raw)).kind = "returned"
    /\ LET parsed == jsonParse(stripFences(raw)).value
       IN  /\ getProp(parsed, "gaps").t = "array"
           /\ getProp(parsed, "suggestions").t = "object"
           /\ getProp(parsed, "refined").t = "string"
           /\ getProp(parsed, "refined").v # ""

\* C13: promptAnalyzer.analyze returns null unless the response parses as
\* JSON with gaps an array, suggestions an object and refined a non-empty
\* string; a result that is not null holds no substituted default
C13_MalformedResponseIsNull ==
    call.op = "analyze" /\ ret # JsNull => wellFormedResponse(call.raw)

\* the categories for which the selections hold one of the category's
\* default suggestion chips
chipSelected(selections) ==
    { selections.entries[i][1] : i \in
        { j \in DOMAIN selections.entries :
            /\ selections.entries[j][1] \in DOMAIN DEFAULT_SUGGESTIONS
            /\ \E k \in DOMAIN DEFAULT_SUGGESTIONS[selections.entries[j][1]] :
                  DEFAULT_SUGGESTIONS[selections.entries[j][1]][k]
                      = selections.entries[j][2] } }

\* POST /api/clarify has been answered 200 and generate had yielded null
clarifiedWithoutAI ==
    /\ req # NoRequest
    /\ req.handler = "clarifyPrompt"
    /\ req.pc = "done"
    /\ res.status = 200
    /\ req.generateNull

\* C14: in POST /api/clarify with the AI unavailable, no category for which
\* the selections hold one of its default chips is among the gaps returned
C14_SelectedChipsNotInGaps ==
    clarifiedWithoutAI =>
        \A i \in DOMAIN res.body.gaps :
            res.body.gaps[i] \notin chipSelected(req.body.selections)

\* POST /api/refine has been answered 200
refinedOk ==
    /\ req # NoRequest
    /\ req.handler = "refinePrompt"
    /\ req.pc = "done"
    /\ res.status = 200

\* what the warning generator returns in the refine request just answered
refineGeneratorOutput ==
    generateWarnings(res.body.scores, detectGaps(res.body.refined.v).gaps,
                     storedIntent(req.existing))

\* C15: in every POST /api/refine response, if driftDetected then warnings[0]
\* is the drift warning and the rest is the warning generator's output in its
\* own order; if not, warnings is that output unchanged and driftWarning is ""
C15_DriftWarningFirst ==
    refinedOk =>
        IF res.body.driftDetected
        THEN /\ Len(res.body.warnings) >= 1
             /\ res.body.warnings[1] = DRIFT_MARK \o res.body.driftWarning
             /\ Tail(res.body.warnings) = refineGeneratorOutput
        ELSE /\ res.body.warnings = refineGeneratorOutput
             /\ res.body.driftWarning = ""

C15_Witness ==
    /\ refinedOk
    /\ res.body.driftDetected
    /\ res.body.driftWarning # ""
    /\ Len(res.body.warnings) >= 2

\* AI is enabled and an API key other than the placeholder is configured
aiConfigured(env) ==
    /\ env.USE_AI = JsString("true")
    /\ env.GROQ_API_KEY.t = "string"
    /\ env.GROQ_API_KEY.v \notin {"", PLACEHOLDER_KEY}

\* the HTTP call succeeds with status OK and a body that parses and holds a
\* non-empty message content in its first choice
hasMessageContent(net) ==
    /\ net.fetch = "resolves"
    /\ net.ok
    /\ net.body.t = "object"
    /\ "choices" \in DOMAIN net.body.v
    /\ net.body.v.choices.t = "array"
    /\ Len(net.body.v.choices.v) >= 1
    /\ net.body.v.choices.v[1].t = "object"
    /\ "message" \in DOMAIN net.body.v.choices.v[1].v
    /\ net.body.v.choices.v[1].v.message.t = "object"
    /\ "content" \in DOMAIN net.body.v.choices.v[1].v.message.v
    /\ net.body.v.choices.v[1].v.message.v.content # JsString("")

\* C16: generate never throws or rejects; it resolves to null when AI is
\* disabled, the key is missing or a placeholder, the HTTP call fails, the
\* status is not OK, the body cannot be parsed or there is no message
\* content, and to the non-empty response text otherwise
C16_GenerateNeverThrows ==
    call.op = "groqGenerate" =>
        /\ ret.kind = "resolved"
        /\ IF aiConfigured(call.env) /\ hasMessageContent(call.net)
           THEN /\ ret.value = call.net.body.v.choices.v[1].v.message.v.content
                /\ isString(ret.value)
                /\ ret.value # JsString("")
           ELSE ret.value = JsNull

C16_Witness ==
    /\ call.op = "groqGenerate"
    /\ aiConfigured(call.env)
    /\ call.net.fetch = "rejects"
    /\ ret = Resolved(JsNull)

\* the request whose savePrompt is in flight has its response already
answered ==
    \/ req = NoRequest
    \/ req.pc = "done" /\ res.status = 200

\* C17: the response of a request is sent without waiting for its savePrompt
\* (while the write is in flight the response is already there), and no step
\* of the write, succeeding or failing, changes its status or body
C17_ResponseIndependentOfSave ==
    /\ [](saves # <<>> => answered)
    /\ [][req' = req => res' = res]_vars

\* analyzePrompt has answered 200, its savePrompt is over and has stored
\* nothing
C17_Witness ==
    /\ req # NoRequest
    /\ req.handler = "analyzePrompt"
    /\ req.pc = "done"
    /\ res.status = 200
    /\ saves = <<>>
    /\ db[req.promptId] = NoDoc

\* the request in hand has called generate and got null
generateGaveNull ==
    /\ req # NoRequest
    /\ "generateNull" \in DOMAIN req
    /\ req.generateNull

\* C18: handling one request invokes generate at most once, and after a null
\* the handler goes on, with no second call, to the rule-based path: the
\* result of promptAnalyzer.analyze is null and the request is answered
C18_GenerateAtMostOnce ==
    /\ req # NoRequest => req.generateCalls <= 1
    /\ generateGaveNull =>
          /\ req.generateCalls = 1
          /\ req.aiResult = JsNull
          /\ req.pc = "done"
          /\ res.status = 200

C18_Witness ==
    /\ generateGaveNull
    /\ req.handler = "refinePrompt"
    /\ req.generateCalls = 1
    /\ res.status = 200
    /\ res.body.refined = req.body.text

wordCountOf(text) == Len(filterBoolean(splitWhitespace(text)))

b2n(b) == IF b THEN 1 ELSE 0

\* the clarity reached by the bonuses alone, before penalty and clamp
bonusClarity(text) ==
    3 + b2n(wordCountOf(text) >= 5) + b2n(wordCountOf(text) >= 10)
      + b2n(wordCountOf(text) >= 20) + b2n(terminatorRuns(text) >= 2)
      + b2n(includes(text, ",")) + b2n(includes(text, "?") \/ includes(text, "."))

\* the intentAlignment reached by the bonuses alone
bonusIntentAlignment(text) ==
    4 + 3 * b2n(\E v \in Range(actionVerbs) : includes(toLowerCase(text), v))
      + b2n(includes(text, "?")) + b2n(wordCountOf(text) >= 5)

\* C19: for a text of fewer than 3 words the penalty comes after all bonuses
\* and before the ceiling: clarity = min(10, max(1, bonus clarity - 3)) and
\* intentAlignment = min(10, max(1, bonus intentAlignment - 2)); score("fix",
\* gaps) has clarity 1 and intentAlignment 5.
C19_ShortPromptPenalty ==
    call.op = "score" =>
        /\ wordCountOf(call.text) < 3 =>
               /\ ret.clarity = Min(10, Max(1, bonusClarity(call.text) - 3))
               /\ ret.intentAlignment =
                      Min(10, Max(1, bonusIntentAlignment(call.text) - 2))
        /\ call.text = "fix" => (ret.clarity = 1 /\ ret.intentAlignment = 5)

\* the one-word prompt "fix" is scored: clarity at the floor, alignment 5
C19_Witness ==
    /\ call.op = "score"
    /\ call.text = "fix"
    /\ wordCountOf(call.text) < 3
    /\ ret.clarity = 1
    /\ ret.intentAlignment = 5

\* a request has been answered on the rule-based path with the suggestion
\* arrays the gap detector handed out
answeredWithChips ==
    /\ req # NoRequest
    /\ req.handler \in {"analyzePrompt", "clarifyPrompt"}
    /\ req.pc = "done"
    /\ res.status = 200
    /\ req.generateNull

standalone(ind, s) ==
    \E i \in occurrences(ind, s) :
        /\ i = 1 \/ charAt(s, i - 1) \in WhiteSpace
        /\ i + Len(ind) > Len(s) \/ charAt(s, i + Len(ind)) \in WhiteSpace

\* C21: whenever the text holds a language indicator as a standalone word,
\* the short names "c++" and "c#" included, detectGaps judges language
\* present: language is not in gaps
C21_StandaloneLanguagePresent ==
    call.op = "constraintDetect" =>
        ((\E lang \in Range(LANGUAGES) : standalone(lang, toLowerCase(call.text)))
            => "language" \notin Range(ret.gaps))

\* the keywords of rule r of the intent table
keywordsOf(r) == Range(INTENT_RULES[r].keywords)

\* kw is the only table phrase of the text lower: the text contains it, and
\* whatever keyword of the table the text contains lies inside kw
onlyTablePhrase(kw, lower) ==
    /\ includes(lower, kw)
    /\ \A r \in 1..Len(INTENT_RULES) :
          \A other \in keywordsOf(r) : includes(lower, other) => includes(kw, other)

\* C30: every keyword of the intent table can decide a classification: a
\* text whose only table phrase is a keyword of rule R, "write a story" of
\* creative_writing among them, is classified as R
C30_EveryKeywordDecides ==
    call.op = "intentDetect" =>
        \A r \in 1..Len(INTENT_RULES) :
            \A kw \in keywordsOf(r) :
                onlyTablePhrase(kw, toLowerCase(call.text))
                    => ret.detected = INTENT_RULES[r].intent

(***************************************************************************)
(* The history of the extension: chrome.storage.local holds the list       *)
(* piHistory; saveToHistory (content.js) and deleteEntry (popup.js,        *)
(* history.js) read it with get and write it back with set from the        *)
(* callback of get, so a read and the write that follows it are two steps, *)
(* and the steps of operations started in different tabs or pages may      *)
(* interleave.  The clear-all handler writes without reading.              *)
(***************************************************************************)
\* if (history.length > 50) history.length = 50
HISTORY_CAP == 50

\* the saveToHistory calls made in one run of the model
MaxSaves == 3

\* the deleteEntry calls made in one run of the model
MaxDeletes == 2

\* the storage operations under way at one time
MaxPending == 2

\* the lengths of the list before the run: empty, one below the cap, at the cap
StartLengths == {0, HISTORY_CAP - 1, HISTORY_CAP}

\* the ids of the entries of a list
idsOf(list) == { list[i].id : i \in DOMAIN list }

\* the cards a user clicks in the run: those of the entries the run has made
\* and of the newest entry before it, as far as they are stored
clickable == { historyEntry(k).id : k \in 0..now } \cap idsOf(piHistory)

\* mutant of prepended: the list is not cut
prepended_uncut(history, entry) == <<entry>> \o history

\* history.unshift(entry); if (history.length > 50) history.length = 50
prepended(history, entry) ==
    LET unshifted == <<entry>> \o history
    IN  IF Len(unshifted) > HISTORY_CAP THEN SubSeq(unshifted, 1, HISTORY_CAP)
        ELSE unshifted

\* result.piHistory.filter((e) => e.id !== id)
withoutId(history, id) == SelectSeq(history, LAMBDA e : e.id # id)

\* saveToHistory(promptText, data), up to the call of chrome.storage.local.get
saveToHistory ==
    /\ now < MaxSaves
    /\ Len(storageOps) < MaxPending
    /\ now' = now + 1
    /\ storageOps' = Append(storageOps,
                        [kind |-> "save", pc |-> "get", entry |-> historyEntry(now + 1),
                         id |-> "", got |-> <<>>])
    /\ UNCHANGED <<piHistory, removed>>
    /\ UNCHANGED <<coreVars, httpVars, storeVars, backgroundVars, pageVars>>

\* deleteEntry(id) of the popup or of the history page, up to the call of get
deleteEntry ==
    /\ Len(storageOps) < MaxPending
    /\ \E id \in clickable \ removed :
        /\ Cardinality(removed \cap { historyEntry(k).id : k \in 0..now }) < MaxDeletes
        /\ storageOps' = Append(storageOps,
                            [kind |-> "delete", pc |-> "get", entry |-> historyEntry(0),
                             id |-> id, got |-> <<>>])
        /\ removed' = removed \cup {id}
    /\ UNCHANGED <<piHistory, now>>
    /\ UNCHANGED <<coreVars, httpVars, storeVars, backgroundVars, pageVars>>

\* the clear-all button, confirmed: chrome.storage.local.set({ piHistory: [] })
clearAll ==
    /\ piHistory # <<>>
    /\ piHistory' = <<>>
    /\ removed' = removed \cup idsOf(piHistory)
    /\ UNCHANGED <<storageOps, now>>
    /\ UNCHANGED <<coreVars, httpVars, storeVars, backgroundVars, pageVars>>

\* chrome.storage.local.get({ piHistory: [] }, ...) reads the list for an
\* operation; its callback has the list as it was read
storageGet ==
    /\ \E i \in DOMAIN storageOps :
        /\ storageOps[i].pc = "get"
        /\ storageOps' = [storageOps EXCEPT ![i] = [@ EXCEPT !.pc = "set",
                                                             !.got = piHistory]]
    /\ UNCHANGED <<piHistory, now, removed>>
    /\ UNCHANGED <<coreVars, httpVars, storeVars, backgroundVars, pageVars>>

\* the callback of get runs and chrome.storage.local.set writes its list
storageSet ==
    /\ \E i \in DOMAIN storageOps :
        /\ storageOps[i].pc = "set"
        /\ piHistory' = IF storageOps[i].kind = "save"
                        THEN prepended(storageOps[i].got, storageOps[i].entry)
                        ELSE withoutId(storageOps[i].got, storageOps[i].id)
        /\ storageOps' = removeAt(storageOps, i)
    /\ UNCHANGED <<now, removed>>
    /\ UNCHANGED <<coreVars, httpVars, storeVars, backgroundVars, pageVars>>

\* the history before the run
HistoryInit ==
    /\ ServerStarted
    /\ WorkerStarted
    /\ PageLoaded
    /\ \E n \in StartLengths : StorageHolds(n)

\* the operations start in any tab and page at any time
HistoryNext ==
    \/ saveToHistory
    \/ deleteEntry
    \/ clearAll
    \/ storageGet
    \/ storageSet

HistorySpec == HistoryInit /\ [][HistoryNext]_vars

\* an operation is started when the one before it has run to its end
startsAlone ==
    /\ storageOps = <<>>
    /\ saveToHistory \/ deleteEntry \/ clearAll

\* the operations run one after another
HistorySeqNext ==
    \/ startsAlone
    \/ storageGet
    \/ storageSet

HistorySeqSpec == HistoryInit /\ [][HistorySeqNext]_vars

\* the entries of a list stand newest first
newestFirst(list) ==
    \A i, j \in DOMAIN list : i < j => list[i].timestamp > list[j].timestamp

\* the write of a saveToHistory puts its entry at index 0, keeps the entries
\* that were stored in their order and drops entries only from the end
savedOnTop ==
    \A i \in DOMAIN storageOps :
        (/\ storageOps[i].kind = "save"
         /\ storageOps[i].pc = "set"
         /\ storageOps' = removeAt(storageOps, i))
            => /\ Len(piHistory') = Min(Len(piHistory) + 1, HISTORY_CAP)
               /\ piHistory'[1] = storageOps[i].entry
               /\ Tail(piHistory') = SubSeq(piHistory, 1, Len(piHistory') - 1)

\* C22: when saveToHistory, deleteEntry and clear-all run one after another,
\* the stored list never has more than 50 entries and is ordered newest
\* first, and each saveToHistory puts the new entry at index 0, keeps the
\* order of the older entries and drops only the oldest ones from the end
C22_HistoryCappedNewestFirst ==
    /\ [](Len(piHistory) <= HISTORY_CAP /\ newestFirst(piHistory))
    /\ [][savedOnTop]_vars

\* a save on a full list is through: the new entry is first and the oldest
\* entry of the start is gone
C22_Witness ==
    /\ storageOps = <<>>
    /\ now >= 1
    /\ Len(piHistory) = HISTORY_CAP
    /\ piHistory[1] = historyEntry(now)
    /\ piHistory[HISTORY_CAP].timestamp > 1 - HISTORY_CAP

\* C28: once every storage operation has run to its end, each entry that a
\* saveToHistory of the run has made is in the stored list unless its id was
\* handed to deleteEntry or the list was cleared while it was stored (the run
\* makes fewer than 50 entries, so the cap drops none of them), also when the
\* reads and writes of the operations interleave
C28_NoEntryLost ==
    storageOps = <<>> =>
        \A k \in 1..now :
            \/ historyEntry(k).id \in removed
            \/ historyEntry(k).id \in idsOf(piHistory)

(***************************************************************************)
(* The stored document under overlapping requests.  The handlers run on    *)
(* one event loop and give way at every await, and savePrompt is started   *)
(* without being awaited, so between the findPrompt of a clarify or refine *)
(* request and the write of its savePrompt the reads and writes of other   *)
(* requests on the same promptId may run.  Here the database is up: a read *)
(* fails never, a write only where the schema or the unique index on       *)
(* promptId refuses it, or where the document read was changed in between. *)
(***************************************************************************)
\* the clarify and refine requests made on the prompt in one run
MaxLater == 2

\* the id uuidv4 gave to the prompt of the run
STORE_ID == "p1"

\* the text of the prompt, the text the analysis made of it and the text a
\* clarify or refine request makes of it
STORE_RAW == JsString("Write code")

STORE_STRUCTURED == JsString("Write code in Python")

STORE_REFINED == JsString("Write code in Python for beginners")

\* POST /api/prompt has answered: savePrompt is started with v0_raw and
\* v1_structured, and is not awaited
promptAnalyzed ==
    /\ db[STORE_ID] = NoDoc
    /\ saves = <<>>
    /\ inflight = <<>>
    /\ issued = 0
    /\ saves' = startSave(saves,
                  [promptId |-> STORE_ID,
                   versions |-> << [label |-> "v0_raw", text |-> STORE_RAW],
                                   [label |-> "v1_structured", text |-> STORE_STRUCTURED] >>,
                   intent |-> DEFAULT_INTENT])
    /\ UNCHANGED <<req, res, chips, db, coreVars, storeVars, extensionVars>>

\* the prompt was analysed: its document is stored or its savePrompt is under way
analysed == db[STORE_ID] # NoDoc \/ saves # <<>> \/ issued > 0

\* POST /api/clarify or POST /api/refine for the prompt, as the panel sends
\* it (with promptId and originalText): const existing = await
\* findPrompt(promptId), and the handler goes on to await the analysis
laterFinds ==
    /\ analysed
    /\ issued < MaxLater
    /\ \E kind \in {"clarified", "refined"} :
        inflight' = Append(inflight,
                      [kind |-> kind,
                       existing |-> findPrompt(db, JsString(STORE_ID), TRUE),
                       first |-> STORE_RAW])
    /\ issued' = issued + 1
    /\ UNCHANGED <<httpVars, coreVars, extensionVars>>

\* the analysis of a request has settled: the handler builds the label and the
\* versions from the document it read, starts savePrompt and answers
laterResponds ==
    /\ \E i \in DOMAIN inflight :
        /\ saves' = startSave(saves,
                      [promptId |-> STORE_ID,
                       versions |-> nextVersions(inflight[i].existing, inflight[i].first,
                                                 inflight[i].kind, STORE_REFINED)])
        /\ inflight' = removeAt(inflight, i)
    /\ UNCHANGED <<req, res, chips, db, issued, coreVars, extensionVars>>

\* a savePrompt reads
storeFind ==
    /\ \E i \in DOMAIN saves : saveFound(i, TRUE)
    /\ UNCHANGED <<req, chips, db, coreVars, storeVars, extensionVars>>

\* the document a savePrompt read was written by another one since
staleRead(save) ==
    save.existing # NoDoc /\ db[save.doc.promptId] # save.existing

\* a savePrompt writes; existing.save() of a document changed since it was
\* read overwrites it or is refused, as the library decides
storeWrite ==
    /\ \E i \in DOMAIN saves :
        \E writeOk \in IF staleRead(saves[i]) THEN BOOLEAN ELSE {TRUE} :
            saveWritten(i, writeOk)
    /\ UNCHANGED <<req, chips, coreVars, storeVars, extensionVars>>

StoreNext ==
    \/ promptAnalyzed
    \/ laterFinds
    \/ laterResponds
    \/ storeFind
    \/ storeWrite

StoreSpec == Init /\ [][StoreNext]_vars

\* the labels of a list of versions differ pairwise
distinctLabels(versions) ==
    \A i, j \in DOMAIN versions : i # j => versions[i].label # versions[j].label

\* C29: once the clarify and refine requests made on an analysed prompt and
\* all storage writes have run to their end, the document of the prompt holds
\* 2 + k versions for k such requests, with pairwise distinct labels and the
\* v0_raw text first, however the requests and the savePrompt of the initial
\* analysis interleave
C29_VersionsAccumulate ==
    (analysed /\ saves = <<>> /\ inflight = <<>>) =>
        /\ db[STORE_ID] # NoDoc
        /\ Len(db[STORE_ID].versions) = 2 + issued
        /\ distinctLabels(db[STORE_ID].versions)
        /\ db[STORE_ID].versions[1] = [label |-> "v0_raw", text |-> STORE_RAW]

(***************************************************************************)
(* The service worker, background.js: the two trigger paths.  A listener   *)
(* call runs up to its next await in one step; the chrome.scripting calls  *)
(* it makes and the messages it sends are kept, each with the tab.         *)
(***************************************************************************)
\* the listener calls under way at one time
MaxTriggers == 2

\* the URLs of the tabs: none (tab.url is undefined), three restricted ones
\* and a web page
TabUrls == {"", "chrome://settings", "chrome-extension://abcdef/popup.html",
            "edge://settings", "https://example.com/"}

\* what is selected in the tab
TabSelections == {"", "  ", " fix bug ", "hello"}

Tabs == [url : TabUrls, selection : TabSelections]

\* info.menuItemId and command
TriggerIds == {"improve-prompt", "other"}

startsWith(s, prefix) ==
    Len(s) >= Len(prefix) /\ SubSeq(s, 1, Len(prefix)) = prefix

\* the test of injectAndSend: !tab.url || chrome:// || chrome-extension:// || edge://
restricted(tab) ==
    \/ tab.url = ""
    \/ startsWith(tab.url, "chrome://")
    \/ startsWith(tab.url, "chrome-extension://")
    \/ startsWith(tab.url, "edge://")

\* the test of the commands.onCommand listener: !tab.url || chrome:// ||
\* chrome-extension://
commandRestricted(tab) ==
    \/ tab.url = ""
    \/ startsWith(tab.url, "chrome://")
    \/ startsWith(tab.url, "chrome-extension://")

\* injectAndSend(tab, selectedText) up to its first await, for the listener
\* call t: on a restricted tab it returns, on any other it calls
\* chrome.scripting.executeScript with content.js
injectAndSend(others, t, selectedText) ==
    IF restricted(t.tab)
    THEN /\ triggers' = others
         /\ UNCHANGED scripting
    ELSE /\ triggers' = Append(others, [t EXCEPT !.pc = "inject", !.text = selectedText])
         /\ scripting' = scripting \cup {[url |-> t.tab.url, call |-> "executeScript content.js"]}

\* contextMenus.onClicked: the listener up to the await in injectAndSend
contextMenuClicked ==
    /\ Len(triggers) < MaxTriggers
    /\ \E menuItemId \in TriggerIds, tab \in Tabs :
        IF menuItemId # "improve-prompt" \/ Len(trim(tab.selection)) = 0
        THEN UNCHANGED <<triggers, scripting>>
        ELSE injectAndSend(triggers, [path |-> "menu", tab |-> tab, pc |-> "", text |-> ""],
                           trim(tab.selection))
    /\ UNCHANGED messages
    /\ UNCHANGED <<coreVars, httpVars, storeVars, historyVars, pageVars>>

\* commands.onCommand: the listener up to the await of the executeScript
\* that grabs the selection; the tab is the one chrome.tabs.query gave, if any
commandReceived ==
    /\ Len(triggers) < MaxTriggers
    /\ \E command \in TriggerIds, found \in BOOLEAN, tab \in Tabs :
        IF command # "improve-prompt" \/ ~found \/ commandRestricted(tab)
        THEN UNCHANGED <<triggers, scripting>>
        ELSE /\ triggers' = Append(triggers,
                               [path |-> "command", tab |-> tab, pc |-> "grab", text |-> ""])
             /\ scripting' = scripting \cup {[url |-> tab.url, call |-> "executeScript func"]}
    /\ UNCHANGED messages
    /\ UNCHANGED <<coreVars, httpVars, storeVars, historyVars, pageVars>>

\* the executeScript of the command listener settles: with the trimmed
\* selection of the page, and then injectAndSend is called unless it is
\* empty, or with an error, which the listener catches
selectionGrabbed ==
    /\ \E i \in DOMAIN triggers, ok \in BOOLEAN :
        /\ triggers[i].pc = "grab"
        /\ IF ~ok \/ trim(triggers[i].tab.selection) = ""
           THEN /\ triggers' = removeAt(triggers, i)
                /\ UNCHANGED scripting
           ELSE injectAndSend(removeAt(triggers, i), triggers[i],
                              trim(triggers[i].tab.selection))
    /\ UNCHANGED messages
    /\ UNCHANGED <<coreVars, httpVars, storeVars, historyVars, pageVars>>

\* the executeScript of injectAndSend settles: insertCSS is called, or the
\* error is caught and the timer is set
scriptInjected ==
    /\ \E i \in DOMAIN triggers, ok \in BOOLEAN :
        /\ triggers[i].pc = "inject"
        /\ triggers' = [triggers EXCEPT ![i].pc = IF ok THEN "css" ELSE "timer"]
        /\ scripting' = IF ok
                        THEN scripting \cup {[url |-> triggers[i].tab.url,
                                              call |-> "insertCSS panel.css"]}
                        ELSE scripting
    /\ UNCHANGED messages
    /\ UNCHANGED <<coreVars, httpVars, storeVars, historyVars, pageVars>>

\* insertCSS settles, well or not: setTimeout(..., 100)
cssInserted ==
    /\ \E i \in DOMAIN triggers :
        /\ triggers[i].pc = "css"
        /\ triggers' = [triggers EXCEPT ![i].pc = "timer"]
    /\ UNCHANGED <<scripting, messages>>
    /\ UNCHANGED <<coreVars, httpVars, storeVars, historyVars, pageVars>>

\* the timer of injectAndSend runs: chrome.tabs.sendMessage(tab.id,
\* { action: 'IMPROVE_PROMPT', text: selectedText })
messageSent ==
    /\ \E i \in DOMAIN triggers :
        /\ triggers[i].pc = "timer"
        /\ messages' = messages \cup {[url |-> triggers[i].tab.url,
                                       action |-> "IMPROVE_PROMPT",
                                       text |-> triggers[i].text]}
        /\ triggers' = removeAt(triggers, i)
    /\ UNCHANGED scripting
    /\ UNCHANGED <<coreVars, httpVars, storeVars, historyVars, pageVars>>

BackgroundNext ==
    \/ contextMenuClicked
    \/ commandReceived
    \/ selectionGrabbed
    \/ scriptInjected
    \/ cssInserted
    \/ messageSent

BackgroundSpec == Init /\ [][BackgroundNext]_vars

\* a URL the claim counts as missing or restricted
missingOrRestricted(url) ==
    \/ url = ""
    \/ startsWith(url, "chrome://")
    \/ startsWith(url, "chrome-extension://")
    \/ startsWith(url, "edge://")

\* C24: no chrome.scripting call is made on a tab whose URL is missing or
\* restricted (chrome://, chrome-extension://, edge://), on either trigger
\* path, no IMPROVE_PROMPT message is sent to such a tab, and no message
\* carries an empty or whitespace-only text
C24_RestrictedTabsUntouched ==
    /\ \A s \in scripting : ~missingOrRestricted(s.url)
    /\ \A m \in messages : ~missingOrRestricted(m.url) /\ trim(m.text) # ""

(***************************************************************************)
(* The content script, content.js, in one page: the injection guard, the   *)
(* message listener, the panel with its three views, the close timer and   *)
(* the requests to the backend.  The functions of the script read and      *)
(* write the variables panelHost, shadowRoot, currentPromptId and          *)
(* originalText, so they are operators on the record of these variables,   *)
(* the hosts created and the timers and requests under way.                *)
(***************************************************************************)
\* the runs of content.js in the page
MaxInjections == 2

\* the panel hosts created in the page
MaxPanels == 2

\* the requests made from one panel
MaxRequests == 2

\* the requests under way at one time
MaxInFlight == 2

\* message.text of an IMPROVE_PROMPT message
MessageTexts == {"", "fix bug"}

\* what the user makes of the prompt in the edit box
EditedTexts == {"fix the bug in Python"}

\* the variables of the script, the hosts, the timers and the requests
page ==
    [panels |-> panels, panelHost |-> panelHost, shadowRoot |-> shadowRoot,
     currentPromptId |-> currentPromptId, originalText |-> panelOriginalText,
     timers |-> timers, fetches |-> fetches]

\* a host that is out of the page and that neither panelHost nor shadowRoot
\* refers to can no longer be seen, clicked or written: what its panel showed
\* is forgotten
forgotten(hosts, host, root) ==
    [h \in DOMAIN hosts |->
        IF hosts[h].attached \/ h = host \/ h = root THEN hosts[h]
        ELSE [attached |-> FALSE, loading |-> FALSE, results |-> FALSE,
              error |-> FALSE, shownText |-> "", data |-> NoPromptId,
              issued |-> 0, lastAnalysis |-> 0]]

\* the page after a function of the script has run
setPage(P) ==
    /\ panels' = forgotten(P.panels, P.panelHost, P.shadowRoot)
    /\ panelHost' = P.panelHost
    /\ shadowRoot' = P.shadowRoot
    /\ currentPromptId' = P.currentPromptId
    /\ panelOriginalText' = P.originalText
    /\ timers' = P.timers
    /\ fetches' = P.fetches

\* the host openPanel creates, with the panel of buildPanelHTML in its shadow
\* root: the views, the text of #pi-original-text, the response whose data the
\* results section shows, and how many requests were made from the panel and
\* which of them was the last analysis
newHost ==
    [attached |-> TRUE, loading |-> TRUE, results |-> FALSE, error |-> FALSE,
     shownText |-> "", data |-> NoPromptId, issued |-> 0, lastAnalysis |-> 0]

\* document.querySelectorAll('#pi-panel-host')
hostsInPage(P) == { h \in DOMAIN P.panels : P.panels[h].attached }

\* closePanel(): every host is removed from the page at once; the variables
\* are reset by a timer 300 ms later when panelHost is set and its panel is
\* found, and at once otherwise
closePanel(P) ==
    LET removedAll == [h \in DOMAIN P.panels |-> [P.panels[h] EXCEPT !.attached = FALSE]]
    IN  IF P.panelHost # NoHost
        THEN IF P.shadowRoot # NoHost
             THEN [P EXCEPT !.panels = removedAll,
                            !.timers = Append(@, [host |-> P.panelHost])]
             ELSE [P EXCEPT !.panels = removedAll, !.panelHost = NoHost,
                            !.shadowRoot = NoHost]
        ELSE [P EXCEPT !.panels = removedAll, !.panelHost = NoHost,
                       !.shadowRoot = NoHost, !.currentPromptId = NoPromptId]

\* showLoading(), on the panel shadowRoot refers to
showLoading(P) ==
    [P EXCEPT !.panels[P.shadowRoot] =
        [@ EXCEPT !.loading = TRUE, !.results = FALSE, !.error = FALSE]]

\* showError(msg): the results section is left as it is; with shadowRoot null
\* it throws and nothing is shown
showError(P) ==
    IF P.shadowRoot = NoHost THEN P
    ELSE [P EXCEPT !.panels[P.shadowRoot] = [@ EXCEPT !.loading = FALSE, !.error = TRUE]]

\* renderResults(data): the error message is left as it is, and
\* #pi-original-text is set to originalText as it is now
renderResults(P, data) ==
    [P EXCEPT !.panels[P.shadowRoot] =
        [@ EXCEPT !.loading = FALSE, !.results = TRUE, !.shownText = P.originalText,
                  !.data = data]]

\* renderRefined(data)
renderRefined(P, data) ==
    [P EXCEPT !.panels[P.shadowRoot] =
        [@ EXCEPT !.loading = FALSE, !.results = TRUE, !.data = data]]

\* analyzePrompt, applyClarifications and refinePrompt up to the await of
\* fetch: showLoading(), which throws when shadowRoot is null, and the request
request(P, kind, text) ==
    IF P.shadowRoot = NoHost THEN P
    ELSE LET h == P.shadowRoot
             k == P.panels[h].issued + 1
             L == showLoading(P)
         IN  [L EXCEPT !.panels[h] =
                         [@ EXCEPT !.issued = k,
                                   !.lastAnalysis = IF kind = "analyze" THEN k ELSE @],
                       !.fetches = @ \cup {[kind |-> kind, text |-> text,
                                             panel |-> h, k |-> k]}]

\* openPanel(text)
openPanel(P, text) ==
    LET closed == closePanel(P)
        host == Len(closed.panels) + 1
    IN  request([closed EXCEPT !.panels = Append(@, newHost),
                               !.panelHost = host, !.shadowRoot = host],
                "analyze", text)

\* mutant of contentInjected: the script has no guard
contentInjected_unguarded ==
    /\ injections < MaxInjections
    /\ injections' = injections + 1
    /\ listeners' = listeners + 1
    /\ UNCHANGED <<panels, panelHost, shadowRoot, currentPromptId, panelOriginalText,
                   timers, fetches>>
    /\ UNCHANGED <<coreVars, httpVars, storeVars, historyVars, backgroundVars>>

\* chrome.scripting.executeScript runs content.js in the page: the first run
\* sets window.__PI_CONTENT_LOADED__ and adds the listener, a later one does
\* nothing
contentInjected ==
    /\ injections < MaxInjections
    /\ injections' = injections + 1
    /\ listeners' = IF injections > 0 THEN listeners ELSE listeners + 1
    /\ UNCHANGED <<panels, panelHost, shadowRoot, currentPromptId, panelOriginalText,
                   timers, fetches>>
    /\ UNCHANGED <<coreVars, httpVars, storeVars, historyVars, backgroundVars>>

\* the onMessage listener gets an IMPROVE_PROMPT message
improvePrompt ==
    /\ listeners > 0
    /\ Len(panels) < MaxPanels
    /\ Cardinality(fetches) < MaxInFlight
    /\ \E text \in MessageTexts :
        IF text = ""
        THEN UNCHANGED <<panels, panelHost, shadowRoot, currentPromptId,
                         panelOriginalText, timers, fetches>>
        ELSE setPage(openPanel([page EXCEPT !.originalText = text], text))
    /\ UNCHANGED <<injections, listeners>>
    /\ UNCHANGED <<coreVars, httpVars, storeVars, historyVars, backgroundVars>>

\* a click on the close button of the panel in the page
closeClicked ==
    /\ hostsInPage(page) # {}
    /\ setPage(closePanel(page))
    /\ UNCHANGED <<injections, listeners>>
    /\ UNCHANGED <<coreVars, httpVars, storeVars, historyVars, backgroundVars>>

\* the oldest close timer runs: panelHost?.remove(); panelHost = null;
\* shadowRoot = null; currentPromptId = null
closeTimerFires ==
    /\ timers # <<>>
    /\ panels' = forgotten([h \in DOMAIN panels |->
                                [panels[h] EXCEPT !.attached = @ /\ h # panelHost]],
                            NoHost, NoHost)
    /\ panelHost' = NoHost
    /\ shadowRoot' = NoHost
    /\ currentPromptId' = NoPromptId
    /\ timers' = Tail(timers)
    /\ UNCHANGED <<panelOriginalText, fetches, injections, listeners>>
    /\ UNCHANGED <<coreVars, httpVars, storeVars, historyVars, backgroundVars>>

\* the panel in the page shows the view named, so its buttons can be clicked,
\* and the bounds allow one more request
clickable_in(view) ==
    /\ Cardinality(fetches) < MaxInFlight
    /\ \E h \in hostsInPage(page) :
        /\ panels[h][view]
        /\ panels[h].issued < MaxRequests

\* a click on Re-analyze after the prompt was edited
reanalyzeClicked ==
    /\ clickable_in("results")
    /\ \E editedText \in EditedTexts :
        setPage(request([page EXCEPT !.originalText = editedText], "analyze", editedText))
    /\ UNCHANGED <<injections, listeners>>
    /\ UNCHANGED <<coreVars, httpVars, storeVars, historyVars, backgroundVars>>

\* a click on Retry
retryClicked ==
    /\ clickable_in("error")
    /\ setPage(request(page, "analyze", panelOriginalText))
    /\ UNCHANGED <<injections, listeners>>
    /\ UNCHANGED <<coreVars, httpVars, storeVars, historyVars, backgroundVars>>

\* a click on Apply Selections, with a chip selected
applyClicked ==
    /\ clickable_in("results")
    /\ setPage(request(page, "clarify", panelOriginalText))
    /\ UNCHANGED <<injections, listeners>>
    /\ UNCHANGED <<coreVars, httpVars, storeVars, historyVars, backgroundVars>>

\* a click on Refine Further; the request carries the refined text shown, of
\* which the model keeps only the response it came with, and originalText
refineClicked ==
    /\ clickable_in("results")
    /\ setPage(request(page, "refine", panelOriginalText))
    /\ UNCHANGED <<injections, listeners>>
    /\ UNCHANGED <<coreVars, httpVars, storeVars, historyVars, backgroundVars>>

\* the rest of analyzePrompt, applyClarifications or refinePrompt for the
\* request q, sent and now answered: with a response that is ok its data is
\* rendered, and a TypeError of the rendering (shadowRoot is null) goes to the
\* catch like a failed request
answered_page(P, q, ok) ==
    LET data == promptIdOf(q.panel, q.k)
        P1 == IF ok /\ q.kind = "analyze" THEN [P EXCEPT !.currentPromptId = data]
              ELSE P
    IN  IF ~ok \/ P1.shadowRoot = NoHost THEN showError(P1)
        ELSE IF q.kind = "refine" THEN renderRefined(P1, data)
        ELSE renderResults(P1, data)

\* a request is answered or fails, in any order; a rendered analysis is
\* handed to saveToHistory, whose storage steps are those of HistorySpec
responseArrives ==
    /\ \E q \in fetches, ok \in BOOLEAN :
        /\ setPage(answered_page([page EXCEPT !.fetches = @ \ {q}], q, ok))
        /\ IF ok /\ q.kind = "analyze" /\ shadowRoot # NoHost
           THEN /\ now' = now + 1
                /\ storageOps' = Append(storageOps,
                                    [kind |-> "save", pc |-> "get",
                                     entry |-> historyEntry(now + 1),
                                     id |-> "", got |-> <<>>])
           ELSE UNCHANGED <<now, storageOps>>
    /\ UNCHANGED <<piHistory, removed, injections, listeners>>
    /\ UNCHANGED <<coreVars, httpVars, storeVars, backgroundVars>>

PanelNext ==
    \/ contentInjected
    \/ improvePrompt
    \/ closeClicked
    \/ closeTimerFires
    \/ reanalyzeClicked
    \/ retryClicked
    \/ applyClicked
    \/ refineClicked
    \/ responseArrives

PanelSpec == Init /\ [][PanelNext]_vars

\* a step that creates a host leaves it as the only host in the page
opensOnePanel ==
    Len(panels') = Len(panels) + 1
        => { h \in DOMAIN panels' : panels'[h].attached } = {Len(panels')}

\* C23: the page never holds more than one #pi-panel-host and the content
\* script never has more than one listener for IMPROVE_PROMPT, however often
\* content.js is injected and however many messages arrive; a message that
\* opens a panel leaves its host as the only one in the page
C23_OnePanelOneListener ==
    /\ [](Cardinality(hostsInPage(page)) <= 1 /\ listeners <= 1)
    /\ [][opensOnePanel]_vars

\* content.js was injected again, a second message has opened a panel, and
\* there is one listener and one host in the page
C23_Witness ==
    /\ injections >= 2
    /\ Len(panels) >= 2
    /\ listeners = 1
    /\ hostsInPage(page) = {Len(panels)}

\* the close timer that runs now was started for another host than the one
\* panelHost refers to: it leaves that host in the page and the variables set
timerSparesNewPanel ==
    (/\ timers # <<>>
     /\ timers' = Tail(timers)
     /\ panelHost # NoHost
     /\ Head(timers).host # panelHost)
        => /\ panels'[panelHost].attached = panels[panelHost].attached
           /\ panelHost' = panelHost
           /\ shadowRoot' = shadowRoot
           /\ currentPromptId' = currentPromptId

\* C25: when an IMPROVE_PROMPT message has opened a new panel while one was
\* open, the close timer started for the previous panel neither removes the
\* host of the new panel nor resets panelHost, shadowRoot and currentPromptId,
\* so the new panel stays until the user closes it and the pending response
\* can be rendered
C25_TimerSparesNewPanel == [][timerSparesNewPanel]_vars

\* C26: the panel in the page shows at most one of its three views, the
\* loading indicator, the results section and the error message, at any
\* moment, however the requests and their responses interleave
C26_OneViewAtATime ==
    \A h \in hostsInPage(page) :
        /\ ~(panels[h].loading /\ panels[h].results)
        /\ ~(panels[h].loading /\ panels[h].error)
        /\ ~(panels[h].results /\ panels[h].error)

\* the response that arrives now is that of an analysis request made from the
\* panel in the page before its latest analysis request: currentPromptId and
\* what the results section shows stay as they are
lateAnalysisIgnored ==
    \A q \in fetches :
        (/\ fetches' = fetches \ {q}
         /\ q.kind = "analyze"
         /\ q.panel \in hostsInPage(page)
         /\ q.panel = shadowRoot
         /\ q.k < panels[q.panel].lastAnalysis)
            => /\ currentPromptId' = currentPromptId
               /\ panels'[q.panel].data = panels[q.panel].data
               /\ panels'[q.panel].shownText = panels[q.panel].shownText

\* C27: of several analysis requests made from one panel (initial analysis,
\* re-analyze, retry) whose responses come in any order, the response of an
\* older request never overwrites currentPromptId and the rendered results,
\* which belong to the request made last
C27_LatestAnalysisWins == [][lateAnalysisIgnored]_vars

====
